---- MODULE Spec2Model ----
(***************************************************************************)
(* VolcengineClient (src/main/services/asr/lib/volcengine-client.ts):      *)
(* the streaming speech-recognition client, its binary frame codec and     *)
(* its connection state machine, driven by an arbitrary caller, by the ws  *)
(* sockets it creates and by its 30 s connection timers.                   *)
(***************************************************************************)
EXTENDS Integers, Sequences, FiniteSets, TLC

\* ------------------------------------------------------------------ bounds
MaxSockets  == 2     \* sockets the client creates in one behaviour
MaxSessions == 1     \* sockets it creates in a behaviour of Spec
MaxAudio    == 2     \* audio frames the caller gets written in one behaviour
MaxCalls    == 4     \* asrService calls PushToTalkService makes in one behaviour
MaxTicks    == 5     \* debounce intervals the keyboard clock advances
MaxRetries  == 5     \* the largest maxRetries makeRequest() is called with
MaxValueLen == 2     \* characters of a setting's value

\* ------------------------------------------------------- protocol constants
MSG_FULL_CLIENT_REQUEST  == 1
MSG_AUDIO_ONLY_REQUEST   == 2
MSG_FULL_SERVER_RESPONSE == 9
MSG_SERVER_ACK           == 11
MSG_SERVER_ERROR         == 15
FLAG_NO_SEQUENCE  == 0
FLAG_POS_SEQUENCE == 1
FLAG_NEG_SEQUENCE == 3
SERIAL_JSON   == 1
COMPRESS_NONE == 0
COMPRESS_GZIP == 1

\* FLOATING_WINDOW_CONFIG
MIN_HEIGHT    == 58
MAX_HEIGHT    == 112
CHROME_HEIGHT == 40
LINE_HEIGHT   == 18
BOTTOM_OFFSET == 80
HEIGHT_DEBOUNCE_THRESHOLD == 4

\* KeyboardService's DEFAULT_CONFIG
triggerKey     == 3640    \* UiohookKey.AltRight
debounceMs     == 50
minRecordingMs == 200

Sockets == 1..MaxSockets

VARIABLES
  connectionState,  \* this.connectionState
  ws,               \* this.ws: 0 is null, otherwise the socket it refers to
  requestId,        \* this.requestId: 0 is '', k is the k-th randomUUID()
  sequence,         \* this.sequence
  errorListener,    \* whether an 'error' listener is subscribed to the client
  nSock,            \* number of sockets created so far
  readyState,       \* per socket: ws readyState
  listeners,        \* per socket: the handlers connect() bound are still attached
  timer,            \* per socket: its connectionTimeout is armed
  response,         \* per socket: the upgrade response: "none", "reading", "ended"
  promise,          \* per socket: the promise of the connect() call that made it
  written,          \* per socket: frames the transport accepted, in order
  emitted,          \* the events the last step emitted, in order
  raised,           \* the exception the last step let escape, or "none"
  last,             \* the last step: operation, socket and message involved
  stream,           \* what the message listener has seen: "start", then
                    \* "result" once a result was emitted, then "dropped"
                    \* once a later message was dropped without an event
  releasedUpTo,     \* the number of sockets created when disconnect() was
                    \* last called: sockets up to it belong to sessions the
                    \* caller has ended
  sessionCap,       \* the number of sockets this behaviour may create
  inBuf,            \* codec runs: the buffer handed to parseResponse
  parsed,           \* codec runs: what parseResponse returned for it
  isActive,         \* PushToTalkService.isActive
  asrCalls,         \* the asrService.start() / stop() calls PushToTalkService
                    \* has made, in order, each pending, resolved or rejected
  sent,             \* what the last PushToTalkService step sent to the
                    \* floating window and to the renderer, in order

  kbd,              \* KeyboardService.state
  now,              \* Date.now()
  physHeld,         \* the trigger key is physically down
  pressCalls,       \* onKeyDown callbacks made since the trigger key was last
                    \* pressed, and whether that press came at least a debounce
                    \* interval after the key-down before it
  llm,              \* the makeRequest() call of VolcengineLLMClient
  asr,              \* the session orchestrator: its pending stop()
  fw,               \* FloatingWindowManager, its window and its timers
  hideTimers,       \* pending setTimeout(() => floatingWindow.hide())
                    \* callbacks of PushToTalkService.handleKeyUp
  env               \* the .env file and the settings saved and read

\* the fields of PushToTalkService, the calls it has made and its output
pttVars == << isActive, asrCalls, sent >>

\* KeyboardService, its clock and the trigger key
kbdVars == << kbd, now, physHeld, pressCalls >>

\* the client, its sockets and timers
clientVars == << connectionState, ws, requestId, sequence, errorListener,
                 nSock, readyState, listeners, timer, response, promise,
                 written, emitted, raised, stream, releasedUpTo, sessionCap,
                 inBuf, parsed >>

\* what the client's actions, and PushToTalkService's, leave alone
uiVars == << fw, hideTimers >>
svcVars == << llm, asr, uiVars, env >>
notClient == << pttVars, kbdVars, svcVars >>
notPtt == << clientVars, kbdVars, svcVars >>

vars == << connectionState, ws, requestId, sequence, errorListener, nSock,
           readyState, listeners, timer, response, promise, written, emitted,
           raised, last, stream, releasedUpTo, sessionCap, inBuf, parsed,
           isActive, asrCalls, sent, kbd, now, physHeld, pressCalls,
           llm, asr, fw, hideTimers, env >>

\* ================================================================ buffers
\* An inbound buffer is described by what parseResponse reads from it: its
\* length, byte 1 (message type, flags), the low nibble of byte 2
\* (compression), the two big-endian words at offsets 4 and 8, and the bytes
\* from offset 12 on.  Those bytes are described by their count, whether they
\* are a complete gzip stream, the text they spell (after decompression when
\* they are gzip) and the value JSON.parse gives for that text.

NoText == << >>                       \* an absent (undefined) string property
Txt(s) == << s >>                     \* a present string property

Utt(t) == [isNull |-> FALSE, text |-> t]
NullUtt == [isNull |-> TRUE, text |-> NoText]

NoUtterances  == [kind |-> "absent", items |-> << >>]
Utterances(u) == [kind |-> "array", items |-> u]
BadUtterances == [kind |-> "notarray", items |-> << >>]

NoResult == [kind |-> "absent", text |-> NoText, utt |-> NoUtterances]
ResultObj(t, u) == [kind |-> "object", text |-> t, utt |-> u]

NotJson    == [kind |-> "notjson", result |-> NoResult]
JsonNull   == [kind |-> "null", result |-> NoResult]
JsonObj(r) == [kind |-> "object", result |-> r]

Bytes(n, gz, str, json) == [n |-> n, gz |-> gz, str |-> str, json |-> json]
EmptyBytes == Bytes(0, FALSE, "", NotJson)
Raw(n, str, json)  == Bytes(n, FALSE, str, json)
Gzip(n, str, json) == Bytes(n, TRUE, str, json)

Buffer(len, mtype, flags, serial, comp, w4, w8, body) ==
  [len |-> len, mtype |-> mtype, flags |-> flags, serial |-> serial,
   comp |-> comp, w4 |-> w4, w8 |-> w8, body |-> body]

\* data.slice(12, 12 + size): clamped to the bytes present
Slice12(data, size) ==
  IF data.len <= 12 \/ size <= 0 THEN EmptyBytes
  ELSE IF size >= data.body.n THEN data.body
  ELSE Bytes(size, FALSE, "<truncated>", NotJson)

\* buf.toString('utf-8')
Utf8(b) == IF b.gz THEN [str |-> "<gzip bytes>", json |-> NotJson]
                       ELSE [str |-> b.str, json |-> b.json]

\* zlib.gzipSync(buf): a gzip stream is at least 20 bytes longer than nothing
gzipCompress(b) == Gzip(b.n + 20, b.str, b.json)

\* zlib.gunzipSync(buf): throws unless buf is a complete gzip stream
GunzipThrows(b) == ~b.gz
gzipDecompress(b) == Raw(b.n - 20, b.str, b.json)

\* buf.readInt32BE(offset): RangeError when the word is not inside the buffer
ReadThrows(data, offset) == offset + 4 > data.len
bytesToInt(data, offset) == IF offset = 4 THEN data.w4 ELSE data.w8

\* ========================================================== parseResponse
Parsed(type, seq, text, isFinal, error) ==
  [type |-> type, sequence |-> seq, text |-> text, isFinal |-> isFinal,
   error |-> error]
ParseNull  == Parsed("null", 0, "", FALSE, "")
ParseThrow == Parsed("throw", 0, "", FALSE, "")

RECURSIVE JoinTexts(_)
\* utterances.map(u => u.text).join(''): an undefined text joins as ''
JoinTexts(items) ==
  IF items = << >> THEN ""
  ELSE (IF Head(items).text = NoText THEN "" ELSE Head(items).text[1])
       \o JoinTexts(Tail(items))

HasNullItem(items) == \E k \in 1..Len(items) : items[k].isNull

\* lines 194-207 with the utterances preferred to result.text
ExtractText_UtterancesFirst(payload) ==
  IF payload.kind \in {"notjson", "null"} THEN [ok |-> FALSE, text |-> ""]
  ELSE IF payload.result.kind # "object" THEN [ok |-> TRUE, text |-> ""]
  ELSE LET r == payload.result
           direct == IF r.text = NoText THEN "" ELSE r.text[1]
       IN IF r.utt.kind = "absent"
          THEN [ok |-> TRUE, text |-> direct]
          ELSE IF r.utt.kind = "notarray" \/ HasNullItem(r.utt.items)
               THEN [ok |-> FALSE, text |-> ""]
               ELSE [ok |-> TRUE, text |-> JoinTexts(r.utt.items)]

\* lines 194-207: the body of the try block; "throw" is caught at line 215
ExtractText(payload) ==
  IF payload.kind \in {"notjson", "null"} THEN [ok |-> FALSE, text |-> ""]
  ELSE IF payload.result.kind # "object" THEN [ok |-> TRUE, text |-> ""]
  ELSE LET r == payload.result
           direct == IF r.text = NoText THEN "" ELSE r.text[1]
       IN IF direct # "" \/ r.utt.kind = "absent"
          THEN [ok |-> TRUE, text |-> direct]
          ELSE IF r.utt.kind = "notarray" \/ HasNullItem(r.utt.items)
               THEN [ok |-> FALSE, text |-> ""]
               ELSE [ok |-> TRUE, text |-> JoinTexts(r.utt.items)]

\* line 197 with the test of the flags left out
IsFinalFrame_SequenceOnly(seq, messageFlags) == seq < 0

\* lines 196-197
IsFinalFrame(seq, messageFlags) == seq < 0 \/ messageFlags = FLAG_NEG_SEQUENCE

\* lines 151-222: the buffer holds a header
parseFrame(data) ==
  IF data.mtype = MSG_SERVER_ERROR THEN
    IF ReadThrows(data, 4) \/ ReadThrows(data, 8) THEN ParseThrow
    ELSE LET raw == Slice12(data, bytesToInt(data, 8))
         IN IF data.comp = COMPRESS_GZIP
            THEN IF GunzipThrows(raw) THEN ParseThrow
                 ELSE Parsed("error", 0, "", FALSE,
                             Utf8(gzipDecompress(raw)).str)
            ELSE Parsed("error", 0, "", FALSE, Utf8(raw).str)
  ELSE IF data.mtype = MSG_SERVER_ACK THEN
    IF ReadThrows(data, 4) THEN ParseThrow
    ELSE Parsed("ack", bytesToInt(data, 4), "", FALSE, "")
  ELSE IF data.mtype = MSG_FULL_SERVER_RESPONSE THEN
    IF ReadThrows(data, 4) \/ ReadThrows(data, 8) THEN ParseThrow
    ELSE LET seq == bytesToInt(data, 4)
             raw == Slice12(data, bytesToInt(data, 8))
         IN IF data.comp = COMPRESS_GZIP /\ GunzipThrows(raw) THEN ParseThrow
            ELSE LET payloadBuf == IF data.comp = COMPRESS_GZIP
                                   THEN gzipDecompress(raw) ELSE raw
                     x == ExtractText(Utf8(payloadBuf).json)
                 IN IF x.ok
                    THEN Parsed("result", seq, x.text,
                                IsFinalFrame(seq, data.flags), "")
                    ELSE ParseNull
  ELSE ParseNull

\* parseResponse without the length test of line 149
parseResponse_NoLengthTest(data) == parseFrame(data)

parseResponse(data) ==
  IF data.len < 4 THEN ParseNull ELSE parseFrame(data)

\* ================================================================ encoders
\* buildHeader + sequence + payload size + gzip payload
buildInitRequest(data, seq) ==
  LET compressedPayload == gzipCompress(data)
  IN Buffer(12 + compressedPayload.n, MSG_FULL_CLIENT_REQUEST,
            FLAG_POS_SEQUENCE, SERIAL_JSON, COMPRESS_GZIP,
            seq, compressedPayload.n, compressedPayload)

buildAudioRequest(audioData, seq, isLast) ==
  LET flag == IF isLast THEN FLAG_NEG_SEQUENCE ELSE FLAG_POS_SEQUENCE
      seqValue == IF isLast THEN -seq ELSE seq
      compressedAudio == gzipCompress(audioData)
  IN Buffer(12 + compressedAudio.n, MSG_AUDIO_ONLY_REQUEST, flag,
            SERIAL_JSON, COMPRESS_GZIP, seqValue, compressedAudio.n,
            compressedAudio)

\* Buffer.from(JSON.stringify(initRequest), 'utf-8')
InitRequestJson == Raw(200, "<init request>", JsonObj(NoResult))

\* the audio chunks a caller passes to sendAudio
Chunks == { Raw(3200, "<pcm>", NotJson) }

\* ======================================================= the client object
\* The handlers run to completion on the event loop; each is a function of
\* the client's fields and the sockets' state, written on a record "c".

StatusEv(s)       == [ev |-> "status", a |-> s, type |-> "", isFinal |-> FALSE]
ErrorEv(m)        == [ev |-> "error", a |-> m, type |-> "", isFinal |-> FALSE]
ResultEv(ty, t, f) == [ev |-> "result", a |-> t, type |-> ty, isFinal |-> f]

\* status, and at the settlement the state and the frames written; "from" is
\* the connectionState in which the call was made
Pending == [status |-> "pending", cs |-> "", nWritten |-> 0, from |-> ""]
NoPromise == [status |-> "none", cs |-> "", nWritten |-> 0, from |-> ""]

Cur == [cs |-> connectionState, ws |-> ws, requestId |-> requestId,
        sequence |-> sequence, readyState |-> readyState,
        listeners |-> listeners, timer |-> timer, promise |-> promise,
        written |-> written, emitted |-> << >>, raised |-> "none"]

isConnected(c) ==
  c.cs = "connected" /\ c.ws # 0 /\ c.readyState[c.ws] = "OPEN"

updateState(c, state) == [c EXCEPT !.cs = state]

emit(c, e) == [c EXCEPT !.emitted = Append(@, e)]

emitStatus(c, status) == emit(c, StatusEv(status))

\* EventEmitter.emit('error', err) throws err when nobody listens
EmitErrorThrows == ~errorListener
emitError(c, m) ==
  IF EmitErrorThrows THEN [c EXCEPT !.raised = "unhandled error event"]
  ELSE emit(c, ErrorEv(m))

reset(c) == [c EXCEPT !.requestId = 0, !.sequence = 0]

cleanup(c) ==
  IF c.ws = 0 THEN c
  ELSE [c EXCEPT !.listeners[c.ws] = FALSE,
                 !.readyState[c.ws] =
                     IF @ = "OPEN" THEN "CLOSING" ELSE @,
                 !.ws = 0]

\* ws.send(payload) on this.ws: throws while CONNECTING, writes while OPEN,
\* drops the data once the socket is closing or closed
wsSend(c, payload) ==
  IF c.readyState[c.ws] = "CONNECTING"
    THEN [c EXCEPT !.raised = "WebSocket is not open"]
  ELSE IF c.readyState[c.ws] = "OPEN"
    THEN [c EXCEPT !.written[c.ws] = Append(@, payload)]
  ELSE c

clearTimeout(c, i) == [c EXCEPT !.timer[i] = FALSE]

\* resolve() / reject() of the promise connect() returned for socket i
settle(c, i, how) ==
  IF c.promise[i].status # "pending" THEN c
  ELSE [c EXCEPT !.promise[i] =
          [status |-> how, cs |-> c.cs, nWritten |-> Len(c.written[i]),
           from |-> c.promise[i].from]]

\* ---------------------------------------------------------------- handlers
\* connect(), lines 276-365, for a call that passed the isConnected guard;
\* i is the socket the call creates.  new WebSocket(ENDPOINT) throws only
\* on a malformed URL, and ENDPOINT is a constant, so the catch of line 304
\* is not taken.
connect(c, i) ==
  LET c1 == emitStatus(updateState(reset(c), "connecting"), "connecting")
  IN [c1 EXCEPT !.requestId = i, !.sequence = 1, !.ws = i,
                !.readyState[i] = "CONNECTING", !.timer[i] = TRUE,
                !.listeners[i] = TRUE,
                !.promise[i] = [Pending EXCEPT !.from = c.cs]]

\* connect() without the guard of lines 271-274
connectCall_NoGuard(c, i) == connect(c, i)

\* connect(), lines 270-409: an async function that returns at once, and so
\* resolves, when the client is connected
connectCall(c, i) == IF isConnected(c) THEN c ELSE connect(c, i)

\* the setTimeout callback of lines 314-324
onTimeout(c, i) ==
  IF c.cs # "connecting" THEN c
  ELSE LET c1 == emitStatus(updateState(cleanup(c), "error"), "error")
           c2 == emitError(c1, "Connection timeout")
       IN IF c2.raised # "none" THEN c2 ELSE settle(c2, i, "rejected")

\* the 'open' listener of lines 326-361
onOpen(c, i) ==
  LET c1 == updateState(c, "connected")
      payload == buildInitRequest(InitRequestJson, c1.sequence)
      c2 == [c1 EXCEPT !.sequence = 2]
      c3 == IF c2.ws # 0 THEN wsSend(c2, payload) ELSE c2
  IN IF c3.raised # "none" THEN c3
     ELSE settle(clearTimeout(emitStatus(c3, "listening"), i), i, "resolved")

\* the response 'end' listener of lines 374-382
onResponseEnd(c, i) ==
  LET c1 == emitStatus(updateState(clearTimeout(c, i), "error"), "error")
      c2 == emitError(c1, "WebSocket upgrade failed")
  IN IF c2.raised # "none" THEN c2 ELSE settle(c2, i, "rejected")

\* the 'error' listener of lines 385-393
onError(c, i, m) ==
  LET c1 == emitError(clearTimeout(c, i), m)
  IN IF c1.raised # "none" THEN c1
     ELSE IF c1.cs = "connecting" THEN settle(c1, i, "rejected") ELSE c1

\* the 'close' listener without the state change of line 404
onClose_KeepState(c, i) ==
  LET c1 == clearTimeout(c, i)
  IN IF c1.cs # "disconnected" THEN emitStatus(c1, "idle") ELSE c1

\* the 'close' listener of lines 395-407
onClose(c, i) ==
  LET c1 == clearTimeout(c, i)
  IN IF c1.cs # "disconnected"
     THEN emitStatus(updateState(c1, "disconnected"), "idle")
     ELSE c1

\* disconnect() without the cleanup of line 413
disconnect_NoCleanup(c) == emitStatus(updateState(c, "disconnected"), "idle")

disconnect(c) == emitStatus(updateState(cleanup(c), "disconnected"), "idle")

\* sendAudio() without the guard of lines 419-422
sendAudio_NoGuard(c, chunk) ==
  LET payload == buildAudioRequest(chunk, c.sequence, FALSE)
      c1 == [c EXCEPT !.sequence = @ + 1]
  IN IF c1.ws # 0 THEN wsSend(c1, payload) ELSE c1

sendAudio(c, chunk) ==
  IF ~isConnected(c) THEN c
  ELSE LET payload == buildAudioRequest(chunk, c.sequence, FALSE)
           c1 == [c EXCEPT !.sequence = @ + 1]
       IN IF c1.ws # 0 THEN wsSend(c1, payload) ELSE c1

\* finishAudio() building its frame with isLast false
finishAudio_NotLast(c) ==
  IF ~isConnected(c) THEN c
  ELSE LET c1 == emitStatus(c, "processing")
           payload == buildAudioRequest(EmptyBytes, c1.sequence, FALSE)
       IN IF c1.ws # 0 THEN wsSend(c1, payload) ELSE c1

finishAudio(c) ==
  IF ~isConnected(c) THEN c
  ELSE LET c1 == emitStatus(c, "processing")
           payload == buildAudioRequest(EmptyBytes, c1.sequence, TRUE)
       IN IF c1.ws # 0 THEN wsSend(c1, payload) ELSE c1

\* lines 486-501 with the done status emitted for every result
emitResult_AlwaysDone(c, resp) ==
  emitStatus(emit(c, ResultEv(IF resp.isFinal THEN "final" ELSE "interim",
                              resp.text, resp.isFinal)), "done")

\* lines 486-501
emitResult(c, resp) ==
  LET c1 == emit(c, ResultEv(IF resp.isFinal THEN "final" ELSE "interim",
                             resp.text, resp.isFinal))
  IN IF resp.isFinal THEN emitStatus(c1, "done") ELSE c1

\* handleMessage() without the result branch of lines 495-497
handleMessage_NoResults(c, data) ==
  LET resp == parseResponse(data)
  IN IF resp.type = "throw" THEN [c EXCEPT !.raised = "parseResponse threw"]
     ELSE IF resp.type = "null" THEN c
     ELSE IF resp.type = "error" /\ resp.error # ""
       THEN LET c1 == emitError(c, resp.error)
            IN IF c1.raised # "none" THEN c1 ELSE emitStatus(c1, "error")
     ELSE c

handleMessage(c, data) ==
  LET resp == parseResponse(data)
  IN IF resp.type = "throw" THEN [c EXCEPT !.raised = "parseResponse threw"]
     ELSE IF resp.type = "null" THEN c
     ELSE IF resp.type = "error" /\ resp.error # ""
       THEN LET c1 == emitError(c, resp.error)
            IN IF c1.raised # "none" THEN c1 ELSE emitStatus(c1, "error")
     ELSE IF resp.type = "result" THEN emitResult(c, resp)
     ELSE c

\* ========================================================= inbound buffers
Doc(n, str, json) == Raw(n, str, json)
HelloDoc    == Doc(27, "{result:{text:hello}}",
                   JsonObj(ResultObj(Txt("hello"), NoUtterances)))
UttDoc      == Doc(60, "{result:{text:'',utterances:[he,y]}}",
                   JsonObj(ResultObj(Txt(""),
                       Utterances(<< Utt(Txt("he")), Utt(Txt("y")) >>))))
\* result.text and result.utterances both present
BothDoc     == Doc(58, "{result:{text:hi,utterances:[he,y]}}",
                   JsonObj(ResultObj(Txt("hi"),
                       Utterances(<< Utt(Txt("he")), Utt(Txt("y")) >>))))
\* result.text absent, the second of three utterances without a text
GapUttDoc   == Doc(50, "{result:{utterances:[a,{},b]}}",
                   JsonObj(ResultObj(NoText,
                       Utterances(<< Utt(Txt("a")), Utt(NoText),
                                     Utt(Txt("b")) >>))))
EmptyUttDoc == Doc(26, "{result:{utterances:[]}}",
                   JsonObj(ResultObj(NoText, Utterances(<< >>))))
\* utterances that is not an array, and an array holding null
BadUttDoc   == Doc(27, "{result:{utterances:7}}",
                   JsonObj(ResultObj(Txt(""), BadUtterances)))
NullUttDoc  == Doc(32, "{result:{utterances:[null]}}",
                   JsonObj(ResultObj(NoText, Utterances(<< NullUtt >>))))
NoResultDoc == Doc(2, "{}", JsonObj(NoResult))
NullDoc     == Doc(4, "null", JsonNull)
GarbageDoc  == Doc(5, "oops!", NotJson)
PartialGzip == Bytes(10, FALSE, "<partial gzip>", NotJson)

ErrText  == Doc(14, "internal error", NotJson)
ErrEmpty == EmptyBytes

Frame(mtype, flags, comp, w4, w8, body) ==
  Buffer(12 + body.n, mtype, flags, SERIAL_JSON, comp, w4, w8, body)
\* a buffer cut off after len bytes, len <= 12
Stub(len, mtype, flags, comp) ==
  Buffer(len, mtype, flags, SERIAL_JSON, comp, 0, 0, EmptyBytes)
ErrorFrame(comp, code, body) ==
  Frame(MSG_SERVER_ERROR, FLAG_NO_SEQUENCE, comp, code, body.n, body)
ResultFrame(flags, comp, seq, body) ==
  Frame(MSG_FULL_SERVER_RESPONSE, flags, comp, seq, body.n, body)

\* shorter than a header
ShortMsg == Stub(2, MSG_FULL_SERVER_RESPONSE, FLAG_POS_SEQUENCE, COMPRESS_GZIP)
\* a message type the client does not know
UnknownTypeMsg == Stub(4, 12, FLAG_NO_SEQUENCE, COMPRESS_NONE)
\* a well-formed ServerAck
AckMsg == Frame(MSG_SERVER_ACK, FLAG_POS_SEQUENCE, COMPRESS_GZIP, 2,
                gzipCompress(NoResultDoc).n, gzipCompress(NoResultDoc))
\* a known server message type, but fewer than 12 bytes
TruncatedMsg == Stub(8, MSG_SERVER_ERROR, FLAG_NO_SEQUENCE, COMPRESS_NONE)
\* the declared payload length exceeds the bytes present
CutShortMsg == Frame(MSG_FULL_SERVER_RESPONSE, FLAG_POS_SEQUENCE,
                     COMPRESS_GZIP, 3, gzipCompress(HelloDoc).n, PartialGzip)
\* the gzip flag on a payload that is not gzip
NotGzipMsg == ResultFrame(FLAG_POS_SEQUENCE, COMPRESS_GZIP, 3, HelloDoc)
\* a payload that is not JSON
NotJsonMsg == ResultFrame(FLAG_POS_SEQUENCE, COMPRESS_NONE, 3, GarbageDoc)
\* ServerError frames
ErrorMsg      == ErrorFrame(COMPRESS_NONE, 500, ErrText)
EmptyErrorMsg == ErrorFrame(COMPRESS_NONE, 500, ErrEmpty)
\* result frames
InterimMsg == ResultFrame(FLAG_POS_SEQUENCE, COMPRESS_GZIP, 3,
                          gzipCompress(HelloDoc))
FinalMsg   == ResultFrame(FLAG_NEG_SEQUENCE, COMPRESS_NONE, -4, UttDoc)
\* final by its flags only, and without a result in its payload
FlagFinalMsg == ResultFrame(FLAG_NEG_SEQUENCE, COMPRESS_GZIP, 5,
                            gzipCompress(NoResultDoc))

\* the messages a socket delivers in the client runs
Msgs == { ShortMsg, UnknownTypeMsg, AckMsg, TruncatedMsg, CutShortMsg,
          NotGzipMsg, NotJsonMsg, ErrorMsg, EmptyErrorMsg, InterimMsg,
          FinalMsg, FlagFinalMsg }

NoMsg == Buffer(0, 0, 0, 0, 0, 0, 0, EmptyBytes)

\* the buffers of the codec runs
CodecFlags  == 0..15
CodecWords  == { -2147483647, -1, 0, 1, 2147483647 }
CodecBodies == { HelloDoc, gzipCompress(HelloDoc), UttDoc, NoResultDoc,
                 GarbageDoc, PartialGzip, EmptyBytes, BothDoc,
                 gzipCompress(BothDoc), GapUttDoc, EmptyUttDoc, BadUttDoc,
                 NullUttDoc, NullDoc }

\* the frames the encoders produce
EncoderSequences == { 1, 2, 2147483647 }
EncodedFrames ==
  { buildInitRequest(InitRequestJson, q) : q \in EncoderSequences }
  \cup { buildAudioRequest(b, q, isLast) :
           b \in Chunks \cup {EmptyBytes}, q \in EncoderSequences,
           isLast \in BOOLEAN }

CodecBuffers ==
  Msgs
  \cup EncodedFrames
  \cup { Frame(MSG_FULL_SERVER_RESPONSE, f, k, q, b.n, b) :
           f \in CodecFlags, k \in {COMPRESS_NONE, COMPRESS_GZIP},
           q \in CodecWords, b \in CodecBodies }
  \cup { Frame(t, FLAG_POS_SEQUENCE, k, q, b.n + 7, b) :
           t \in {0, MSG_SERVER_ACK, MSG_SERVER_ERROR},
           k \in {COMPRESS_NONE, COMPRESS_GZIP},
           q \in CodecWords, b \in CodecBodies }
  \cup { Stub(n, t, FLAG_NEG_SEQUENCE, COMPRESS_NONE) :
           n \in {0, 3, 4, 7, 8, 11, 12},
           t \in {MSG_FULL_SERVER_RESPONSE, MSG_SERVER_ACK, MSG_SERVER_ERROR,
                  MSG_AUDIO_ONLY_REQUEST} }

NotParsed == Parsed("pending", 0, "", FALSE, "")

\* ======================================================== KeyboardService
\* src/main/services/keyboard/keyboard.service.ts, lines 60-249

\* the initial state, lines 62-67
KeyboardState == [isKeyHeld |-> FALSE, lastKeyDownTime |-> 0,
                  lastKeyUpTime |-> 0, recordingStartTime |-> 0]

\* the trigger key and another key
Keycodes == { triggerKey, triggerKey + 1 }

NoPress == [calls |-> 0, clean |-> FALSE]

\* isDebounced(lastTime) at time t
isDebounced(lastTime, t) == t - lastTime < debounceMs

Ignored(k) == [kbd |-> k, called |-> FALSE]

\* lines 182-207; "called" says whether onKeyDown was invoked
Kbd_handleKeyDown(k, keycode, t) ==
  IF keycode # triggerKey THEN Ignored(k)
  ELSE IF isDebounced(k.lastKeyDownTime, t) THEN Ignored(k)
  ELSE IF k.isKeyHeld THEN Ignored(k)
  ELSE [kbd |-> [k EXCEPT !.isKeyHeld = TRUE, !.lastKeyDownTime = t,
                          !.recordingStartTime = t],
        called |-> TRUE]

\* lines 212-248; "called" says whether onKeyUp was invoked
Kbd_handleKeyUp(k, keycode, t) ==
  IF keycode # triggerKey THEN Ignored(k)
  ELSE IF ~k.isKeyHeld THEN Ignored(k)
  ELSE IF isDebounced(k.lastKeyUpTime, t) THEN Ignored(k)
  ELSE LET recordingDuration == t - k.recordingStartTime
       IN [kbd |-> [k EXCEPT !.isKeyHeld = FALSE, !.lastKeyUpTime = t],
           called |-> recordingDuration >= minRecordingMs]

\* ==================================================== VolcengineLLMClient
\* src/main/services/llm/volcengine-llm-client.ts, makeRequest, lines 24-138

\* an error object: its name and, for a non-ok response, the HTTP status
Err(name, status) == [name |-> name, status |-> status]
NoErr == Err("", 0)
HttpError(status) == Err("Error", status)
AbortError == Err("AbortError", 0)
FetchFailed == Err("TypeError", 0)       \* fetch() rejects: no connection
BodyFailed == Err("SyntaxError", 0)      \* response.json() / text() rejects

\* the statuses a response comes with
Statuses == { 200, 400, 404, 429, 500 }
ResponseOk(status) == status >= 200 /\ status <= 299

Min(a, b) == IF a < b THEN a ELSE b

\* the delay of lines 101 and 126 without the cap
retryDelay_NoCap(attempt) == 1000 * 2^attempt

\* Math.min(1000 * Math.pow(2, attempt), 10000), lines 101 and 126
retryDelay(attempt) == Min(1000 * 2^attempt, 10000)

\* no call; pc is the await the call is suspended at, or "done"
NoLlmCall == [pc |-> "idle", maxRetries |-> 0, attempt |-> 0, requests |-> 0,
              status |-> 0, lastError |-> NoErr, delays |-> << >>,
              outcome |-> "none", thrown |-> NoErr]

\* line 138
throwLast(m) == [m EXCEPT !.pc = "done", !.outcome = "thrown",
                          !.thrown = m.lastError]

\* the head of the loop, lines 57-71: the test, then fetch() is called
loopHead(m) ==
  IF m.attempt <= m.maxRetries
  THEN [m EXCEPT !.pc = "fetch", !.requests = @ + 1, !.status = 0]
  ELSE throwLast(m)

\* `continue`, or the end of the loop body: attempt++ and the test
nextAttempt(m) == loopHead([m EXCEPT !.attempt = @ + 1])

\* await new Promise(resolve => setTimeout(resolve, delay))
sleep(m) == [m EXCEPT !.pc = "sleep",
                      !.delays = Append(@, retryDelay(m.attempt))]

\* the catch block, lines 110-132
catch(m, error) ==
  LET e  == IF error.name = "AbortError"
            THEN [error EXCEPT !.name = "TimeoutError"] ELSE error
      m1 == [m EXCEPT !.lastError = e]
  IN IF e.name = "TimeoutError"
       THEN [m1 EXCEPT !.pc = "done", !.outcome = "thrown", !.thrown = e]
     ELSE IF m1.attempt < m1.maxRetries THEN sleep(m1)
     ELSE nextAttempt(m1)

\* makeRequest(inputText, options) up to its first await, lines 24-71
makeRequest(maxRetries) ==
  loopHead([NoLlmCall EXCEPT !.maxRetries = maxRetries])

\* `await fetch(...)` settles, lines 66-77 and 107
afterFetch(m, how, status) ==
  IF how = "abort" THEN catch(m, AbortError)
  ELSE IF how = "reject" THEN catch(m, FetchFailed)
  ELSE IF ~ResponseOk(status) THEN [m EXCEPT !.pc = "text", !.status = status]
  ELSE [m EXCEPT !.pc = "json", !.status = status]

\* `await response.text()` settles, lines 78-105
afterText(m, read) ==
  IF ~read THEN catch(m, BodyFailed)
  ELSE LET error == HttpError(m.status)
           m1 == [m EXCEPT !.lastError = error]
       IN IF m.status >= 400 /\ m.status < 500 /\ m.status # 429
            THEN catch(m1, error)
          ELSE IF m1.attempt < m1.maxRetries THEN sleep(m1)
          ELSE catch(m1, error)

\* `await response.json()` settles, lines 107-109
afterJson(m, read) ==
  IF ~read THEN catch(m, BodyFailed)
  ELSE [m EXCEPT !.pc = "done", !.outcome = "returned"]

\* =================================================== session orchestrator
\* The orchestrator over the client (asrService): start() delegates to
\* connect(); stop() calls finishAudio(), waits for a final result event or
\* a bounded timeout, resolves with the final result or else the best
\* result seen (possibly interim) or null, and then calls disconnect(); an
\* error event during a session resolves a pending stop() the same way.

\* no session: stop is "idle", "pending" or "resolved"; best and value are
\* << >> (null) or hold one result event
AsrIdle == [active |-> FALSE, sock |-> 0, stop |-> "idle", timer |-> FALSE,
            best |-> << >>, value |-> << >>]

\* a pending stop() resolves with the best result seen
resolveStop(a) ==
  IF a.stop # "pending" THEN a
  ELSE [a EXCEPT !.stop = "resolved", !.value = a.best, !.timer = FALSE]

\* the orchestrator's listeners for the client's events
onEvent(a, e) ==
  IF ~a.active THEN a
  ELSE IF e.ev = "result"
    THEN LET a1 == [a EXCEPT !.best = << e >>]
         IN IF e.isFinal THEN resolveStop(a1) ELSE a1
  ELSE IF e.ev = "error" THEN resolveStop(a)
  ELSE a

RECURSIVE onEvents(_, _)
onEvents(a, events) ==
  IF events = << >> THEN a
  ELSE onEvents(onEvent(a, Head(events)), Tail(events))

\* start(): rejected while a session is active
asrStart(a, i) ==
  [AsrIdle EXCEPT !.active = TRUE, !.sock = i]

\* stop() up to its wait
asrStop(a) == [a EXCEPT !.stop = "pending", !.timer = TRUE]

\* ---- what the ws library does to socket i, as seen by the client
socketOpen(c, i) ==
  LET c1 == [c EXCEPT !.readyState[i] = "OPEN"]
  IN IF c.listeners[i] THEN onOpen(c1, i) ELSE c1

socketFail(c, i) ==
  LET c0 == [c EXCEPT !.readyState[i] = "CLOSING"]
      c1 == IF c.listeners[i] THEN onError(c0, i, "handshake failed")
            ELSE [c0 EXCEPT !.raised = "unhandled socket error"]
      c2 == [c1 EXCEPT !.readyState[i] = "CLOSED"]
  IN IF c1.raised # "none" THEN c1 ELSE onClose(c2, i)

socketError(c, i) ==
  LET c0 == [c EXCEPT !.readyState[i] = "CLOSING"]
  IN IF c.listeners[i] THEN onError(c0, i, "socket error")
     ELSE [c0 EXCEPT !.raised = "unhandled socket error"]

socketClose(c, i) ==
  LET c0 == [c EXCEPT !.readyState[i] = "CLOSED"]
  IN IF c.listeners[i] THEN onClose(c0, i) ELSE c0

\* ================================================== FloatingWindowManager
\* src/main/windows/floating.ts

\* the manager after construction, lines 56-59: no window.  "pending" counts
\* the auto-hide timeouts not yet fired or cleared, "handleLive" says that
\* this.autoHideTimer refers to one of them; "toRenderer" is what the last
\* step sent to the floating renderer; "shownSince" says that show() ran
\* since the auto-hide was last armed; "screen" is the work-area height
\* read at the last resize.
FloatingWindowManager ==
  [window |-> FALSE, visible |-> FALSE, autoHideTimer |-> FALSE,
   handleLive |-> FALSE, pending |-> 0, currentHeight |-> MIN_HEIGHT,
   height |-> 0, y |-> 0, screen |-> 0, resized |-> FALSE,
   toRenderer |-> << >>, shownSince |-> FALSE]

\* work-area heights of the primary display
ScreenHeights == { 800, 1080 }

\* the ASRStatus values
AsrStatuses == { "idle", "connecting", "listening", "processing", "done",
                 "error", "llm_optimizing" }

Abs(n) == IF n < 0 THEN 0 - n ELSE n

\* window.setBounds({ y: screenHeight - h - BOTTOM_OFFSET, height: h })
setBounds(f, h, screenHeight) ==
  [f EXCEPT !.height = h, !.y = screenHeight - h - BOTTOM_OFFSET,
            !.screen = screenHeight, !.resized = TRUE]

\* create(), lines 65-131
create(f, screenHeight) ==
  IF f.window THEN f
  ELSE [f EXCEPT !.window = TRUE, !.visible = FALSE, !.height = MIN_HEIGHT,
                 !.y = screenHeight - MIN_HEIGHT - BOTTOM_OFFSET,
                 !.screen = screenHeight]

\* clearAutoHideTimer(), lines 354-359
clearAutoHideTimer(f) ==
  IF ~f.autoHideTimer THEN f
  ELSE [f EXCEPT !.autoHideTimer = FALSE, !.handleLive = FALSE,
                 !.pending = IF f.handleLive THEN @ - 1 ELSE @]

\* scheduleAutoHide() without the clearAutoHideTimer() of line 345
scheduleAutoHide_NoClear(f) ==
  [f EXCEPT !.autoHideTimer = TRUE, !.handleLive = TRUE,
            !.pending = @ + 1, !.shownSince = FALSE]

\* scheduleAutoHide(), lines 344-349
scheduleAutoHide(f) ==
  [clearAutoHideTimer(f) EXCEPT !.autoHideTimer = TRUE, !.handleLive = TRUE,
                                !.pending = @ + 1, !.shownSince = FALSE]

\* resetHeight(), lines 304-306
resetHeight(f) == [f EXCEPT !.currentHeight = MIN_HEIGHT]

\* resetHeightSync(), lines 313-339
resetHeightSync(f, screenHeight) ==
  LET f1 == [f EXCEPT !.currentHeight = MIN_HEIGHT]
  IN IF ~f1.window THEN f1 ELSE setBounds(f1, MIN_HEIGHT, screenHeight)

\* show(), lines 137-153
show(f, screenHeight) ==
  LET f1 == clearAutoHideTimer(create(f, screenHeight))
      f2 == IF ~f1.visible THEN resetHeightSync(f1, screenHeight) ELSE f1
  IN [f2 EXCEPT !.visible = TRUE, !.shownSince = TRUE]

\* hide(), lines 158-163
hide(f) ==
  resetHeight([clearAutoHideTimer(f) EXCEPT !.visible = FALSE])

\* destroy(), lines 168-175
destroy(f) ==
  [clearAutoHideTimer(f) EXCEPT !.window = FALSE, !.visible = FALSE]

\* window.webContents.send(channel, value)
toFloating(f, kind, arg) ==
  [f EXCEPT !.toRenderer = Append(@, [kind |-> kind, arg |-> arg])]

\* sendStatus(status), lines 181-205
sendStatus(f, status, screenHeight) ==
  IF ~f.window THEN f
  ELSE LET f1 == IF status \in {"connecting", "listening", "processing"}
                 THEN show(f, screenHeight) ELSE f
           f2 == IF status = "done" THEN scheduleAutoHide(f1) ELSE f1
       IN IF status = "idle" THEN hide(f2)
          ELSE toFloating(f2, "status", status)

\* sendResult(result), lines 211-216
sendResult(f) ==
  IF ~f.window THEN f ELSE toFloating(f, "result", "")

\* sendError(error), lines 222-231
sendError(f, error, screenHeight) ==
  IF ~f.window THEN f
  ELSE scheduleAutoHide(toFloating(show(f, screenHeight), "error", error))

\* the target of line 272 without the cap at MAX_HEIGHT
targetHeight_NoCap(contentHeight) ==
  IF contentHeight <= LINE_HEIGHT THEN MIN_HEIGHT
  ELSE CHROME_HEIGHT + contentHeight

\* the target height of lines 266-273
targetHeight(contentHeight) ==
  IF contentHeight <= LINE_HEIGHT THEN MIN_HEIGHT
  ELSE Min(CHROME_HEIGHT + contentHeight, MAX_HEIGHT)

\* setContentHeight(contentHeight), lines 257-298
setContentHeight(f, contentHeight, screenHeight) ==
  IF ~f.window THEN f
  ELSE IF Abs(targetHeight(contentHeight) - f.currentHeight)
            < HEIGHT_DEBOUNCE_THRESHOLD THEN f
  ELSE [setBounds(f, targetHeight(contentHeight), screenHeight)
          EXCEPT !.currentHeight = targetHeight(contentHeight)]

\* ========================================================== the .env file
\* src/main/ipc/llm.handler.ts

\* a value is a string, a sequence of characters; the names of the keys and
\* the default values are taken as one character each
EnvChars == { "a", " ", "'", "\"" }
Quotes   == { "'", "\"" }

EnvValues == UNION { [1..n -> EnvChars] : n \in 0..MaxValueLen }

\* defaultConfig of readEnvConfig, lines 234-244, and the old default of
\* line 257
DefaultResourceId == << "volc.bigasr.sauc.duration" >>
DefaultKey        == << "228" >>
OldDefaultKey     == << "574" >>
DefaultEnabled    == << "false" >>

defaultConfig ==
  [VOLCENGINE_APP_ID |-> << >>,
   VOLCENGINE_RESOURCE_ID |-> DefaultResourceId,
   PUSH_TO_TALK_KEY |-> DefaultKey,
   VOLCENGINE_LLM_ENABLED |-> DefaultEnabled]

\* the configurations the settings page saves
EnvConfigs ==
  [VOLCENGINE_APP_ID : EnvValues,
   VOLCENGINE_RESOURCE_ID : { << >>, << "a" >> },
   PUSH_TO_TALK_KEY : { << >>, << "a" >>, OldDefaultKey },
   VOLCENGINE_LLM_ENABLED : { << >>, << "true" >> }]

\* no .env file, nothing saved; "read" is what readEnvConfig returned if it
\* was called since the file was last written
NoEnvFile == [exists |-> FALSE, file |-> << >>, saved |-> defaultConfig,
              read |-> defaultConfig]

\* a || b of two strings: the empty string is falsy
Or(a, b) == IF a = << >> THEN b ELSE a

\* String.prototype.trim
RECURSIVE trim(_)
trim(str) ==
  IF str = << >> THEN str
  ELSE IF Head(str) = " " THEN trim(Tail(str))
  ELSE IF str[Len(str)] = " " THEN trim(SubSeq(str, 1, Len(str) - 1))
  ELSE str

\* value.replace(/^['"](.*)['"]$/, '$1'), line 186
unquote(value) ==
  IF /\ Len(value) >= 2
     /\ value[1] \in Quotes
     /\ value[Len(value)] \in Quotes
  THEN SubSeq(value, 2, Len(value) - 1)
  ELSE value

\* trimmed.indexOf('='), 0 when there is none
indexOfEquals(str) ==
  IF \E i \in 1..Len(str) : str[i] = "="
  THEN CHOOSE i \in 1..Len(str) :
         /\ str[i] = "="
         /\ \A j \in 1..(i - 1) : str[j] # "="
  ELSE 0

\* parseEnvFile, lines 165-191: the value the lines give to a key, the
\* empty string when none does (undefined is as falsy as '')
RECURSIVE parseEnvFile(_, _)
parseEnvFile(lines, key) ==
  IF lines = << >> THEN << >>
  ELSE LET rest == SubSeq(lines, 1, Len(lines) - 1)
           trimmed == trim(lines[Len(lines)])
           at == indexOfEquals(trimmed)
       IN IF trimmed = << >> \/ Head(trimmed) = "#" \/ at = 0
            THEN parseEnvFile(rest, key)
          ELSE IF trim(SubSeq(trimmed, 1, at - 1)) = << key >>
            THEN unquote(trim(SubSeq(trimmed, at + 1, Len(trimmed))))
          ELSE parseEnvFile(rest, key)

\* stringifyEnvConfig, lines 196-227: its comment lines and its settings
stringifyEnvConfig(config) ==
  << << "#", " ", "a" >>,
     << "VOLCENGINE_APP_ID", "=" >> \o config.VOLCENGINE_APP_ID,
     << >>,
     << "VOLCENGINE_RESOURCE_ID", "=" >> \o config.VOLCENGINE_RESOURCE_ID,
     << "PUSH_TO_TALK_KEY", "=" >> \o Or(config.PUSH_TO_TALK_KEY, DefaultKey),
     << "VOLCENGINE_LLM_ENABLED", "=" >>
        \o Or(config.VOLCENGINE_LLM_ENABLED, DefaultEnabled) >>

\* the migration of lines 255-262
migrateKey(key) == IF key = OldDefaultKey THEN DefaultKey ELSE key

\* readEnvConfig, lines 232-272
readEnvConfig(e) ==
  IF ~e.exists THEN defaultConfig
  ELSE [VOLCENGINE_APP_ID |->
          Or(parseEnvFile(e.file, "VOLCENGINE_APP_ID"),
             defaultConfig.VOLCENGINE_APP_ID),
        VOLCENGINE_RESOURCE_ID |->
          Or(parseEnvFile(e.file, "VOLCENGINE_RESOURCE_ID"),
             defaultConfig.VOLCENGINE_RESOURCE_ID),
        PUSH_TO_TALK_KEY |->
          migrateKey(Or(parseEnvFile(e.file, "PUSH_TO_TALK_KEY"),
                        defaultConfig.PUSH_TO_TALK_KEY)),
        VOLCENGINE_LLM_ENABLED |->
          Or(parseEnvFile(e.file, "VOLCENGINE_LLM_ENABLED"),
             defaultConfig.VOLCENGINE_LLM_ENABLED)]

\* writeEnvConfig, lines 277-288
writeEnvConfig(e, config) ==
  [e EXCEPT !.exists = TRUE, !.file = stringifyEnvConfig(config),
            !.saved = config]

\* ================================================================== steps
Step(op, i, m) == [op |-> op, sock |-> i, msg |-> m]

Install(c) ==
  /\ connectionState' = c.cs
  /\ ws' = c.ws
  /\ requestId' = c.requestId
  /\ sequence' = c.sequence
  /\ readyState' = c.readyState
  /\ listeners' = c.listeners
  /\ timer' = c.timer
  /\ promise' = c.promise
  /\ written' = c.written
  /\ emitted' = c.emitted
  /\ raised' = c.raised

ClientInit ==
  /\ connectionState = "disconnected"
  /\ ws = 0
  /\ requestId = 0
  /\ sequence = 0
  /\ errorListener \in BOOLEAN
  /\ nSock = 0
  /\ readyState = [i \in Sockets |-> "NONE"]
  /\ listeners = [i \in Sockets |-> FALSE]
  /\ timer = [i \in Sockets |-> FALSE]
  /\ response = [i \in Sockets |-> "none"]
  /\ promise = [i \in Sockets |-> NoPromise]
  /\ written = [i \in Sockets |-> << >>]
  /\ emitted = << >>
  /\ raised = "none"
  /\ last = Step("init", 0, NoMsg)
  /\ stream = "start"
  /\ releasedUpTo = 0
  /\ isActive = FALSE
  /\ asrCalls = << >>
  /\ sent = << >>
  /\ kbd = KeyboardState
  /\ now = debounceMs
  /\ physHeld = FALSE
  /\ pressCalls = NoPress
  /\ llm = NoLlmCall
  /\ asr = AsrIdle
  /\ fw = FloatingWindowManager
  /\ hideTimers = 0
  /\ env = NoEnvFile

Init ==
  /\ ClientInit
  /\ sessionCap = MaxSessions
  /\ inBuf = NoMsg
  /\ parsed = NotParsed

\* the audio frames written so far, over all sockets
IsAudioFrame(f) == f.mtype = MSG_AUDIO_ONLY_REQUEST
RECURSIVE CountAudio(_)
CountAudio(k) ==
  IF k = 0 THEN 0
  ELSE Len(SelectSeq(written[k], IsAudioFrame)) + CountAudio(k - 1)
AudioWritten == CountAudio(MaxSockets)

\* ---- the caller
Connect ==
  /\ ~isConnected(Cur)
  /\ nSock < MaxSockets
  /\ nSock < sessionCap
  /\ Install(connectCall(Cur, nSock + 1))
  /\ nSock' = nSock + 1
  /\ last' = Step("connect", nSock + 1, NoMsg)
  /\ UNCHANGED << notClient, releasedUpTo, errorListener, response, stream,
                  sessionCap, inBuf, parsed >>

ConnectWhileConnected ==
  /\ isConnected(Cur)
  /\ Install(connectCall(Cur, nSock + 1))
  /\ last' = Step("connect-noop", ws, NoMsg)
  /\ UNCHANGED << notClient, releasedUpTo, errorListener, nSock, response,
                  stream, sessionCap, inBuf, parsed >>

Disconnect ==
  /\ Install(disconnect(Cur))
  /\ last' = Step("disconnect", ws, NoMsg)
  /\ releasedUpTo' = nSock
  /\ UNCHANGED << notClient, errorListener, nSock, response, stream,
                  sessionCap, inBuf, parsed >>

SendAudio ==
  /\ isConnected(Cur) => AudioWritten < MaxAudio
  /\ \E chunk \in Chunks : Install(sendAudio(Cur, chunk))
  /\ last' = Step("sendAudio", ws, NoMsg)
  /\ UNCHANGED << notClient, releasedUpTo, errorListener, nSock, response,
                  stream, sessionCap, inBuf, parsed >>

FinishAudio ==
  /\ isConnected(Cur) => AudioWritten < MaxAudio
  /\ Install(finishAudio(Cur))
  /\ last' = Step("finishAudio", ws, NoMsg)
  /\ UNCHANGED << notClient, releasedUpTo, errorListener, nSock, response,
                  stream, sessionCap, inBuf, parsed >>

\* ---- the 30 s timer of socket i
TimerFire(i) ==
  /\ timer[i]
  /\ Install(onTimeout(clearTimeout(Cur, i), i))
  /\ last' = Step("timeout", i, NoMsg)
  /\ UNCHANGED << notClient, releasedUpTo, errorListener, nSock, response,
                  stream, sessionCap, inBuf, parsed >>

\* ---- socket i (the ws library)
\* socket.emit('error', err) on a socket whose listeners were removed: the
\* EventEmitter throws err out of the library's callback
unhandledError(c) == [c EXCEPT !.raised = "unhandled socket error"]

\* the handshake completes: readyState becomes OPEN and 'open' is emitted
SocketOpen(i) ==
  /\ readyState[i] = "CONNECTING"
  /\ response[i] = "none"
  /\ LET c == [Cur EXCEPT !.readyState[i] = "OPEN"]
     IN Install(IF listeners[i] THEN onOpen(c, i) ELSE c)
  /\ last' = Step("open", i, NoMsg)
  /\ UNCHANGED << notClient, releasedUpTo, errorListener, nSock, response,
                  stream, sessionCap, inBuf, parsed >>

\* the handshake fails: ws sets CLOSING, emits 'error', then sets CLOSED and
\* emits 'close'; a listener that throws keeps 'close' from being emitted
SocketFail(i) ==
  /\ readyState[i] = "CONNECTING"
  /\ response[i] = "none"
  /\ LET c  == [Cur EXCEPT !.readyState[i] = "CLOSING"]
         c1 == IF listeners[i] THEN onError(c, i, "handshake failed")
               ELSE unhandledError(c)
         c2 == [c1 EXCEPT !.readyState[i] = "CLOSED"]
     IN Install(IF c1.raised # "none" THEN c1 ELSE onClose(c2, i))
  /\ last' = Step("fail", i, NoMsg)
  /\ UNCHANGED << notClient, releasedUpTo, errorListener, nSock, response,
                  stream, sessionCap, inBuf, parsed >>

\* the server answers the upgrade with a non-101 status: with an
\* 'unexpected-response' listener ws leaves the request to the listener,
\* which starts reading the body (lines 367-373)
UnexpectedResponse(i) ==
  /\ readyState[i] = "CONNECTING"
  /\ response[i] = "none"
  /\ listeners[i]
  /\ response' = [response EXCEPT ![i] = "reading"]
  /\ Install(Cur)
  /\ last' = Step("unexpected-response", i, NoMsg)
  /\ UNCHANGED << notClient, releasedUpTo, errorListener, nSock, stream,
                  sessionCap, inBuf, parsed >>

\* the body of that response ends
ResponseEnd(i) ==
  /\ response[i] = "reading"
  /\ response' = [response EXCEPT ![i] = "ended"]
  /\ Install(onResponseEnd(Cur, i))
  /\ last' = Step("response-end", i, NoMsg)
  /\ UNCHANGED << notClient, releasedUpTo, errorListener, nSock, stream,
                  sessionCap, inBuf, parsed >>

\* a transport error on an open socket: ws sets CLOSING and emits 'error'
SocketError(i) ==
  /\ readyState[i] = "OPEN"
  /\ LET c == [Cur EXCEPT !.readyState[i] = "CLOSING"]
     IN Install(IF listeners[i] THEN onError(c, i, "socket error")
                ELSE unhandledError(c))
  /\ last' = Step("error", i, NoMsg)
  /\ UNCHANGED << notClient, releasedUpTo, errorListener, nSock, response,
                  stream, sessionCap, inBuf, parsed >>

\* the connection ends (peer close, or a close this side started)
SocketClose(i) ==
  /\ readyState[i] \in {"OPEN", "CLOSING"}
  /\ LET c == [Cur EXCEPT !.readyState[i] = "CLOSED"]
     IN Install(IF listeners[i] THEN onClose(c, i) ELSE c)
  /\ last' = Step("close", i, NoMsg)
  /\ UNCHANGED << notClient, releasedUpTo, errorListener, nSock, response,
                  stream, sessionCap, inBuf, parsed >>

IsResultEv(e) == e.ev = "result"

\* socket i delivers a message to the 'message' listener (lines 363-365)
Deliver(i) ==
  /\ readyState[i] = "OPEN"
  /\ listeners[i]
  /\ \E m \in Msgs :
       LET c == handleMessage(Cur, m)
       IN /\ Install(c)
          /\ last' = Step("message", i, m)
          /\ stream' =
               IF stream = "start" /\ SelectSeq(c.emitted, IsResultEv) # << >>
                 THEN "result"
               ELSE IF stream = "result" /\ c.emitted = << >>
                                        /\ c.raised = "none"
                 THEN "dropped"
               ELSE stream
  /\ UNCHANGED << notClient, releasedUpTo, errorListener, nSock, response,
                  sessionCap, inBuf, parsed >>

Next ==
  \/ Connect
  \/ ConnectWhileConnected
  \/ Disconnect
  \/ SendAudio
  \/ FinishAudio
  \/ \E i \in Sockets : TimerFire(i)
  \/ \E i \in Sockets : SocketOpen(i)
  \/ \E i \in Sockets : SocketFail(i)
  \/ \E i \in Sockets : UnexpectedResponse(i)
  \/ \E i \in Sockets : ResponseEnd(i)
  \/ \E i \in Sockets : SocketError(i)
  \/ \E i \in Sockets : SocketClose(i)
  \/ \E i \in Sockets : Deliver(i)

Spec == Init /\ [][Next]_vars

\* the same client, creating sockets until the pool is used up
ReuseInit ==
  /\ ClientInit
  /\ sessionCap = MaxSockets
  /\ inBuf = NoMsg
  /\ parsed = NotParsed

ReuseSpec == ReuseInit /\ [][Next]_vars

\* ------------------------------------------------------------- codec runs
\* parseResponse applied to one buffer drawn from CodecBuffers
CodecInit ==
  /\ ClientInit
  /\ errorListener
  /\ sessionCap = 0
  /\ inBuf \in CodecBuffers
  /\ parsed = NotParsed

Parse ==
  /\ parsed = NotParsed
  /\ parsed' = parseResponse(inBuf)
  /\ last' = Step("parse", 0, inBuf)
  /\ UNCHANGED << connectionState, ws, requestId, sequence, errorListener,
                  nSock, readyState, listeners, timer, response, promise,
                  written, emitted, raised, stream, releasedUpTo, sessionCap,
                  inBuf, notClient >>

CodecNext == Parse

CodecSpec == CodecInit /\ [][CodecNext]_vars

\* ------------------------------------------------------- fair behaviours
\* An armed timer fires, and a response body that is being read ends; an
\* 'error' listener is subscribed.  Nothing obliges the transport to open
\* or the caller to call again.
LiveInit == Init /\ errorListener

LiveSpec ==
  /\ LiveInit
  /\ [][Next]_vars
  /\ \A i \in Sockets : WF_vars(TimerFire(i))
  /\ \A i \in Sockets : WF_vars(ResponseEnd(i))

\* ====================================================== PushToTalkService
\* src/main/services/push-to-talk/push-to-talk.service.ts: the handlers of
\* the trigger key, run by the keyboard hook, and their continuations after
\* the asrService call they await.

AsrCall(kind) == [kind |-> kind, status |-> "pending"]

Ptt == [isActive |-> isActive, asrCalls |-> asrCalls, sent |-> << >>]

\* floatingWindow.sendStatus / sendError / sendResult / hide, and the
\* IPC_CHANNELS.ASR.STATUS message to the main window's renderer
FwStatus(status) == [to |-> "floating", kind |-> "status", arg |-> status]
FwError(prefix)  == [to |-> "floating", kind |-> "error", arg |-> prefix]
FwResult         == [to |-> "floating", kind |-> "result", arg |-> ""]
FwHide           == [to |-> "floating", kind |-> "hide", arg |-> ""]
RendererStatus(status) ==
  [to |-> "renderer", kind |-> "status", arg |-> status]

send(p, m) == [p EXCEPT !.sent = Append(@, m)]

notifyRendererStartRecording(p) == send(p, RendererStatus("listening"))
notifyRendererStopRecording(p)  == send(p, RendererStatus("processing"))

\* handleKeyDown, lines 134-148: up to the await of asrService.start()
handleKeyDown(p) ==
  IF p.isActive THEN p
  ELSE send([p EXCEPT !.isActive = TRUE,
                      !.asrCalls = Append(@, AsrCall("start"))],
            FwStatus("connecting"))

\* lines 157-166 with the reset of line 162 left out
afterStart_KeepActive(p, k, how) ==
  LET p1 == [p EXCEPT !.asrCalls[k].status = how]
  IN IF how = "rejected" THEN send(p1, FwError("Failed to start"))
     ELSE notifyRendererStartRecording(send(p1, FwStatus("listening")))

\* handleKeyDown, lines 150-166: after asrService.start() has settled
afterStart(p, k, how) ==
  LET p1 == [p EXCEPT !.asrCalls[k].status = how]
  IN IF how = "rejected"
     THEN send([p1 EXCEPT !.isActive = FALSE], FwError("Failed to start"))
     ELSE notifyRendererStartRecording(send(p1, FwStatus("listening")))

\* handleKeyUp, lines 173-190: up to the await of asrService.stop()
handleKeyUp(p) ==
  IF ~p.isActive THEN p
  ELSE notifyRendererStopRecording(
         send([p EXCEPT !.isActive = FALSE,
                        !.asrCalls = Append(@, AsrCall("stop"))],
              FwStatus("processing")))

\* handleKeyUp, lines 192-237: after asrService.stop() has settled, up to
\* the wait for the focus to return; stop() resolved with a result that has
\* a text ("text"), with null or an empty text ("empty"), or rejected
afterStop(p, k, how) ==
  LET p1 == [p EXCEPT !.asrCalls[k].status = how]
  IN IF how = "text"
       THEN send(send(send(p1, FwResult), FwStatus("done")), FwHide)
     ELSE IF how = "empty" THEN send(p1, FwHide)
     ELSE send(p1, FwError("Error"))

\* ---- handleKeyUp of the PushToTalkService of keyboard.service.ts, which
\* passes the text through the LLM service; with the LLM service not
\* available it is the handleKeyUp of push-to-talk.service.ts
\* (lines 192-237)

\* what stop() resolved with: a text of words, a text of white space only,
\* a text of more than 10000 characters
AsrTexts == { "words", "blank", "long" }

\* what the LLM API does with a request: a rewritten text, the same text,
\* or a failure (HTTP error, network error, timeout, unusable response)
LlmReplies == { "rewritten", "unchanged", "failed" }

\* DEFAULT_CONFIG.autoInsertText, push-to-talk.service.ts line 42; the
\* service is constructed without a configuration
autoInsertText == TRUE

\* textInputService.insert(finalText), line 585
Insert(which) == [to |-> "cursor", kind |-> "insert", arg |-> which]

\* setTimeout(() => floatingWindow.hide(), hideDelayMs * 2), line 617
HideLater == [to |-> "timer", kind |-> "hide", arg |-> ""]

\* LLMService.optimizeText (types.ts 191-242) over
\* VolcengineLLMClient.optimizeText (146-297), the service available: the
\* client throws on a text it does not accept, before its try block, and
\* the service rethrows; a failed request makes the client return the
\* original text with success false, which the service returns
optimizeText(text, reply) ==
  IF text \in {"blank", "long"} THEN "threw"
  ELSE IF reply = "rewritten" THEN "optimized"
  ELSE "same"

\* lines 571-583 without the hide() of line 575
finishText_NoHide(p, k, which) ==
  LET p1 == send([p EXCEPT !.asrCalls[k].status = "done"], FwStatus("done"))
  IN IF autoInsertText
     THEN [p1 EXCEPT !.asrCalls[k].status = "focus-wait-" \o which]
     ELSE p1

\* lines 571-583: the done status, hide(), and the wait for the focus
finishText(p, k, which) ==
  LET p1 == send(send([p EXCEPT !.asrCalls[k].status = "done"],
                      FwStatus("done")), FwHide)
  IN IF autoInsertText
     THEN [p1 EXCEPT !.asrCalls[k].status = "focus-wait-" \o which]
     ELSE p1

\* the catch block of handleKeyUp, lines 611-620
stopFailed(p, k) ==
  send(send([p EXCEPT !.asrCalls[k].status = "failed"], FwError("Error")),
       HideLater)

\* lines 509-571 and 604-620: after asrService.stop() has settled, up to
\* the await of optimizeText or of the focus wait
afterStopLlm(p, k, text, available) ==
  IF text = "rejected" THEN stopFailed(p, k)
  ELSE IF text = "none"
    THEN send([p EXCEPT !.asrCalls[k].status = "empty"], FwHide)
  ELSE IF available
    THEN send(send([p EXCEPT !.asrCalls[k].status = "optimizing-" \o text],
                   FwResult), FwStatus("llm_optimizing"))
  ELSE finishText(send(p, FwResult), k, "asr")

\* lines 535-566: after optimizeText has settled.  The catch block calls
\* floatingWindow.sendWarning, which FloatingWindowManager does not have:
\* the TypeError leaves the block and reaches the catch of line 611
afterOptimize(p, k, outcome) ==
  IF outcome = "optimized" THEN finishText(send(p, FwResult), k, "llm")
  ELSE IF outcome = "same" THEN finishText(p, k, "asr")
  ELSE stopFailed(p, k)

\* lines 585-602: after the focus wait
afterFocusWait(p, k, ok) ==
  LET which == IF p.asrCalls[k].status = "focus-wait-llm" THEN "llm"
               ELSE "asr"
      p1 == send([p EXCEPT !.asrCalls[k].status = "inserted-" \o which],
                 Insert(which))
  IN IF ok THEN p1 ELSE send(p1, FwError("Insert failed"))

\* the calls of a step on the floating window, in their order
RECURSIVE deliver(_, _)
deliver(f, msgs) ==
  IF msgs = << >> THEN f
  ELSE LET m == Head(msgs)
           f1 == IF m.to # "floating" THEN f
                 ELSE IF m.kind = "status"
                        THEN sendStatus(f, m.arg, f.screen)
                 ELSE IF m.kind = "error" THEN sendError(f, m.arg, f.screen)
                 ELSE IF m.kind = "result" THEN sendResult(f)
                 ELSE hide(f)
       IN deliver(f1, Tail(msgs))

InstallPtt(p) ==
  /\ isActive' = p.isActive
  /\ asrCalls' = p.asrCalls
  /\ sent' = p.sent

PttInit ==
  /\ ClientInit
  /\ errorListener
  /\ sessionCap = 0
  /\ inBuf = NoMsg
  /\ parsed = NotParsed

\* the keyboard hook reports the trigger key pressed
KeyDown ==
  /\ ~isActive => Len(asrCalls) < MaxCalls
  /\ InstallPtt(handleKeyDown(Ptt))
  /\ last' = Step("keydown", 0, NoMsg)
  /\ UNCHANGED notPtt

\* the keyboard hook reports the trigger key released
KeyUp ==
  /\ isActive => Len(asrCalls) < MaxCalls
  /\ InstallPtt(handleKeyUp(Ptt))
  /\ last' = Step("keyup", 0, NoMsg)
  /\ UNCHANGED notPtt

\* the k-th call, an asrService.start(), resolves or rejects
StartSettles(k) ==
  /\ k <= Len(asrCalls)
  /\ asrCalls[k] = AsrCall("start")
  /\ \E how \in {"resolved", "rejected"} :
       /\ InstallPtt(afterStart(Ptt, k, how))
       /\ last' = Step("start-" \o how, k, NoMsg)
  /\ UNCHANGED notPtt

\* the k-th call, an asrService.stop(), resolves or rejects
StopSettles(k) ==
  /\ k <= Len(asrCalls)
  /\ asrCalls[k] = AsrCall("stop")
  /\ \E how \in {"text", "empty", "rejected"} :
       /\ InstallPtt(afterStop(Ptt, k, how))
       /\ last' = Step("stop-" \o how, k, NoMsg)
  /\ UNCHANGED notPtt

\* ---- the keyboard hook (uIOhook) and the clock
Called(r) == IF r.called THEN 1 ELSE 0

\* a 'keydown' event of the trigger key reaches KeyboardService, which may
\* invoke PushToTalkService.handleKeyDown
HookKeyDown(op) ==
  LET r == Kbd_handleKeyDown(kbd, triggerKey, now)
      p == IF r.called THEN handleKeyDown(Ptt) ELSE Ptt
  IN /\ Len(p.asrCalls) <= MaxCalls
     /\ kbd' = r.kbd
     /\ InstallPtt(p)
     /\ pressCalls' =
          IF op = "press"
          THEN [calls |-> Called(r),
                clean |-> ~isDebounced(kbd.lastKeyDownTime, now)]
          ELSE [pressCalls EXCEPT !.calls = @ + Called(r)]
     /\ last' = Step(op, Called(r), NoMsg)

\* the time passes by one debounce interval
Tick ==
  /\ now < debounceMs + MaxTicks * debounceMs
  /\ now' = now + debounceMs
  /\ last' = Step("tick", 0, NoMsg)
  /\ UNCHANGED << clientVars, svcVars, pttVars, kbd, physHeld, pressCalls >>

\* the trigger key goes down
PressTrigger ==
  /\ ~physHeld
  /\ physHeld' = TRUE
  /\ HookKeyDown("press")
  /\ UNCHANGED << clientVars, svcVars, now >>

\* the keyboard repeats the key-down of the held trigger key
RepeatTrigger ==
  /\ physHeld
  /\ HookKeyDown("repeat")
  /\ UNCHANGED << clientVars, svcVars, now, physHeld >>

\* the trigger key goes up: a 'keyup' event reaches KeyboardService, which
\* may invoke PushToTalkService.handleKeyUp
ReleaseTrigger ==
  /\ physHeld
  /\ physHeld' = FALSE
  /\ LET r == Kbd_handleKeyUp(kbd, triggerKey, now)
         p == IF r.called THEN handleKeyUp(Ptt) ELSE Ptt
     IN /\ Len(p.asrCalls) <= MaxCalls
        /\ kbd' = r.kbd
        /\ InstallPtt(p)
        /\ last' = Step("release", Called(r), NoMsg)
  /\ UNCHANGED << clientVars, svcVars, now, pressCalls >>

\* another key goes down or up
OtherKey ==
  /\ \E code \in Keycodes \ {triggerKey}, down \in BOOLEAN :
       LET r == IF down THEN Kbd_handleKeyDown(kbd, code, now)
                        ELSE Kbd_handleKeyUp(kbd, code, now)
           p == IF ~r.called THEN Ptt
                ELSE IF down THEN handleKeyDown(Ptt) ELSE handleKeyUp(Ptt)
       IN /\ Len(p.asrCalls) <= MaxCalls
          /\ kbd' = r.kbd
          /\ InstallPtt(p)
          /\ last' = Step(IF down THEN "other-down" ELSE "other-up",
                          Called(r), NoMsg)
  /\ UNCHANGED << clientVars, svcVars, now, physHeld, pressCalls >>

KbdNext ==
  \/ Tick
  \/ PressTrigger
  \/ RepeatTrigger
  \/ ReleaseTrigger
  \/ OtherKey
  \/ \E k \in 1..MaxCalls : StartSettles(k)
  \/ \E k \in 1..MaxCalls : StopSettles(k)

KbdSpec == PttInit /\ [][KbdNext]_vars

\* ---- VolcengineLLMClient.makeRequest
LlmStep(m, op) ==
  /\ llm' = m
  /\ last' = Step(op, m.attempt, NoMsg)
  /\ UNCHANGED << clientVars, pttVars, kbdVars, asr, uiVars, env >>

MakeRequest ==
  /\ llm.pc = "idle"
  /\ \E maxRetries \in 0..MaxRetries :
       LlmStep(makeRequest(maxRetries), "llm-call")

\* the request is answered, fails, or is aborted by the timer of line 59
FetchSettles ==
  /\ llm.pc = "fetch"
  /\ \/ \E status \in Statuses :
          LlmStep(afterFetch(llm, "response", status), "llm-response")
     \/ LlmStep(afterFetch(llm, "reject", 0), "llm-reject")
     \/ LlmStep(afterFetch(llm, "abort", 0), "llm-abort")

TextSettles ==
  /\ llm.pc = "text"
  /\ \E read \in BOOLEAN :
       LlmStep(afterText(llm, read),
               IF read THEN "llm-text" ELSE "llm-text-failed")

JsonSettles ==
  /\ llm.pc = "json"
  /\ \E read \in BOOLEAN :
       LlmStep(afterJson(llm, read),
               IF read THEN "llm-json" ELSE "llm-json-failed")

\* the timer of the delay fires
SleepEnds ==
  /\ llm.pc = "sleep"
  /\ LlmStep(nextAttempt(llm), "llm-retry")

LlmNext ==
  \/ MakeRequest
  \/ FetchSettles
  \/ TextSettles
  \/ JsonSettles
  \/ SleepEnds

\* every await of makeRequest settles: the fetch by a response, a failure
\* or the abort of its timer, a body read by its end or a failure, a delay
\* by its timer
LlmSpec == PttInit /\ [][LlmNext]_vars /\ WF_vars(LlmNext)

\* ---- the session orchestrator over the client
\* a step of the client: the orchestrator's listeners run on the events it
\* emits; a stop() that this resolves goes on to call disconnect(); a
\* start() whose connect() was rejected is a session never started
AsrStep(c, a, op, i, m) ==
  LET a1 == onEvents(a, c.emitted)
      resolved == a1.stop = "resolved" /\ a.stop # "resolved"
      c1 == IF resolved THEN disconnect(c) ELSE c
      a2 == IF resolved THEN [a1 EXCEPT !.active = FALSE]
            ELSE IF a1.active /\ a1.stop = "idle"
                    /\ c.promise[a1.sock].status = "rejected"
              THEN [a1 EXCEPT !.active = FALSE]
            ELSE a1
  IN /\ Install(c1)
     /\ asr' = a2
     /\ releasedUpTo' = IF resolved THEN nSock ELSE releasedUpTo
     /\ last' = Step(op, i, m)
     /\ UNCHANGED << pttVars, kbdVars, llm, uiVars, env, errorListener, response, stream,
                     sessionCap, inBuf, parsed >>

AsrStart ==
  /\ ~asr.active
  /\ nSock < MaxSessions
  /\ nSock' = nSock + 1
  /\ AsrStep(connectCall(Cur, nSock + 1), asrStart(asr, nSock + 1),
             "asr-start", nSock + 1, NoMsg)

AsrFeed ==
  /\ asr.active
  /\ asr.stop = "idle"
  /\ AudioWritten < MaxAudio
  /\ \E chunk \in Chunks :
       AsrStep(sendAudio(Cur, chunk), asr, "asr-feed", ws, NoMsg)
  /\ UNCHANGED nSock

AsrStop ==
  /\ asr.active
  /\ asr.stop = "idle"
  /\ AsrStep(finishAudio(Cur), asrStop(asr), "asr-stop", ws, NoMsg)
  /\ UNCHANGED nSock

\* the bounded wait of stop() ends
AsrStopTimeout ==
  /\ asr.timer
  /\ AsrStep(Cur, resolveStop(asr), "asr-stop-timeout", ws, NoMsg)
  /\ UNCHANGED nSock

AsrConnectTimeout(i) ==
  /\ timer[i]
  /\ AsrStep(onTimeout(clearTimeout(Cur, i), i), asr, "asr-timeout", i, NoMsg)
  /\ UNCHANGED nSock

AsrSocketOpen(i) ==
  /\ readyState[i] = "CONNECTING"
  /\ AsrStep(socketOpen(Cur, i), asr, "asr-open", i, NoMsg)
  /\ UNCHANGED nSock

AsrSocketFail(i) ==
  /\ readyState[i] = "CONNECTING"
  /\ AsrStep(socketFail(Cur, i), asr, "asr-fail", i, NoMsg)
  /\ UNCHANGED nSock

AsrSocketError(i) ==
  /\ readyState[i] = "OPEN"
  /\ AsrStep(socketError(Cur, i), asr, "asr-error", i, NoMsg)
  /\ UNCHANGED nSock

AsrSocketClose(i) ==
  /\ readyState[i] \in {"OPEN", "CLOSING"}
  /\ AsrStep(socketClose(Cur, i), asr, "asr-close", i, NoMsg)
  /\ UNCHANGED nSock

\* the messages a socket delivers in the orchestrator runs
AsrMsgs == { AckMsg, NotJsonMsg, ErrorMsg, InterimMsg, FinalMsg, FlagFinalMsg }

AsrDeliver(i) ==
  /\ readyState[i] = "OPEN"
  /\ listeners[i]
  /\ \E m \in AsrMsgs :
       AsrStep(handleMessage(Cur, m), asr, "asr-message", i, m)
  /\ UNCHANGED nSock

AsrNext ==
  \/ AsrStart
  \/ AsrFeed
  \/ AsrStop
  \/ AsrStopTimeout
  \/ \E i \in Sockets : AsrConnectTimeout(i)
  \/ \E i \in Sockets : AsrSocketOpen(i)
  \/ \E i \in Sockets : AsrSocketFail(i)
  \/ \E i \in Sockets : AsrSocketError(i)
  \/ \E i \in Sockets : AsrSocketClose(i)
  \/ \E i \in Sockets : AsrDeliver(i)

\* the timer of stop()'s bounded wait fires unless the wait has ended
AsrSpec == PttInit /\ [][AsrNext]_vars /\ WF_vars(AsrStopTimeout)

\* ---- the settings page saves and loads the configuration
EnvStep(e, op) ==
  /\ env' = e
  /\ last' = Step(op, 0, NoMsg)
  /\ UNCHANGED << clientVars, pttVars, kbdVars, llm, asr, uiVars >>

EnvWrite ==
  \E config \in EnvConfigs :
    EnvStep([writeEnvConfig(env, config) EXCEPT !.read = defaultConfig],
            "env-write")

EnvRead == EnvStep([env EXCEPT !.read = readEnvConfig(env)], "env-read")

EnvNext ==
  \/ EnvWrite
  \/ EnvRead

EnvSpec == PttInit /\ [][EnvNext]_vars

\* ---- FloatingWindowManager, called over IPC and by the main process
FwBegin == [fw EXCEPT !.toRenderer = << >>, !.resized = FALSE]

FwStep(f, op, arg) ==
  /\ fw' = f
  /\ last' = Step(op, arg, NoMsg)
  /\ UNCHANGED << clientVars, pttVars, kbdVars, llm, asr, hideTimers, env >>

\* content heights the renderer reports (scrollHeight)
ContentHeights == { -1, 0, 17, 18, 19, 21, 22, 36, 54, 71, 72, 73, 90 }

FwCreate ==
  \E sh \in ScreenHeights : FwStep(create(FwBegin, sh), "fw-create", 0)

FwDestroy == FwStep(destroy(FwBegin), "fw-destroy", 0)

FwShow ==
  \E sh \in ScreenHeights : FwStep(show(FwBegin, sh), "fw-show", 0)

FwHideCall == FwStep(hide(FwBegin), "fw-hide", 0)

FwSendStatus ==
  \E status \in AsrStatuses, sh \in ScreenHeights :
    /\ fw' = sendStatus(FwBegin, status, sh)
    /\ last' = [op |-> "fw-status", sock |-> 0, msg |-> NoMsg,
                status |-> status]
    /\ UNCHANGED << clientVars, pttVars, kbdVars, llm, asr, hideTimers, env >>

FwSendResult == FwStep(sendResult(FwBegin), "fw-result", 0)

FwSendError ==
  \E sh \in ScreenHeights :
    FwStep(sendError(FwBegin, "error", sh), "fw-error", 0)

FwSetContentHeight ==
  \E h \in ContentHeights, sh \in ScreenHeights :
    FwStep(setContentHeight(FwBegin, h, sh), "fw-height", h)

\* an auto-hide timeout fires: the one this.autoHideTimer refers to, or one
\* whose handle was overwritten
FwAutoHideFires ==
  /\ fw.pending > 0
  /\ \E own \in BOOLEAN :
       /\ own => fw.handleLive
       /\ ~own => fw.pending > (IF fw.handleLive THEN 1 ELSE 0)
       /\ FwStep(hide([FwBegin EXCEPT !.pending = @ - 1,
                                     !.handleLive = IF own THEN FALSE ELSE @]),
                 "fw-autohide", 0)

FwNext ==
  \/ FwCreate
  \/ FwDestroy
  \/ FwShow
  \/ FwHideCall
  \/ FwSendStatus
  \/ FwSendResult
  \/ FwSendError
  \/ FwSetContentHeight
  \/ FwAutoHideFires

FwSpec == PttInit /\ [][FwNext]_vars

\* ---- PushToTalkService with the floating window and the LLM service
UiStep(p, op, k) ==
  /\ fw.window
  /\ Len(p.asrCalls) <= MaxCalls
  /\ InstallPtt(p)
  /\ fw' = deliver(FwBegin, p.sent)
  /\ hideTimers' = hideTimers + Cardinality({ i \in 1..Len(p.sent) :
                                               p.sent[i] = HideLater })
  /\ last' = Step(op, k, NoMsg)
  /\ UNCHANGED << clientVars, kbdVars, llm, asr, env >>

\* the main process creates the floating window before the services start
UiCreate == ~fw.window /\ FwCreate

UiKeyDown == UiStep(handleKeyDown(Ptt), "keydown", 0)

UiKeyUp == UiStep(handleKeyUp(Ptt), "keyup", 0)

UiStartSettles(k) ==
  /\ k <= Len(asrCalls)
  /\ asrCalls[k] = AsrCall("start")
  /\ \E how \in {"resolved", "rejected"} :
       UiStep(afterStart(Ptt, k, how), "start-" \o how, k)

UiStopSettles(k) ==
  /\ k <= Len(asrCalls)
  /\ asrCalls[k] = AsrCall("stop")
  /\ \E text \in AsrTexts \cup {"none", "rejected"}, available \in BOOLEAN :
       UiStep(afterStopLlm(Ptt, k, text, available),
              IF text \in AsrTexts THEN "stop-text" ELSE "stop-" \o text, k)

UiOptimizeSettles(k) ==
  /\ k <= Len(asrCalls)
  /\ \E text \in AsrTexts, reply \in LlmReplies :
       /\ asrCalls[k].status = "optimizing-" \o text
       /\ UiStep(afterOptimize(Ptt, k, optimizeText(text, reply)),
                 "optimize-" \o optimizeText(text, reply), k)

UiFocusWaitEnds(k) ==
  /\ k <= Len(asrCalls)
  /\ asrCalls[k].status \in {"focus-wait-asr", "focus-wait-llm"}
  /\ \E ok \in BOOLEAN : UiStep(afterFocusWait(Ptt, k, ok), "insert", k)

\* a delayed hide of line 617 fires
UiHideTimerFires ==
  /\ hideTimers > 0
  /\ hideTimers' = hideTimers - 1
  /\ fw' = hide(FwBegin)
  /\ last' = Step("hide-timer", 0, NoMsg)
  /\ sent' = << >>
  /\ UNCHANGED << clientVars, kbdVars, llm, asr, env, isActive, asrCalls >>

UiAutoHideFires ==
  /\ FwAutoHideFires

UiNext ==
  \/ UiCreate
  \/ UiKeyDown
  \/ UiKeyUp
  \/ \E k \in 1..MaxCalls : UiStartSettles(k)
  \/ \E k \in 1..MaxCalls : UiStopSettles(k)
  \/ \E k \in 1..MaxCalls : UiOptimizeSettles(k)
  \/ \E k \in 1..MaxCalls : UiFocusWaitEnds(k)
  \/ UiHideTimerFires
  \/ UiAutoHideFires

UiSpec == PttInit /\ [][UiNext]_vars

PttNext ==
  \/ KeyDown
  \/ KeyUp
  \/ \E k \in 1..MaxCalls : StartSettles(k)
  \/ \E k \in 1..MaxCalls : StopSettles(k)

PttSpec == PttInit /\ [][PttNext]_vars

\* ================================================================= claims

IsTerminating(f) == f.mtype = MSG_AUDIO_ONLY_REQUEST /\ f.flags = FLAG_NEG_SEQUENCE
HasTerminating(i) == \E p \in 1..Len(written[i]) : IsTerminating(written[i][p])
FirstTerminating(i) ==
  CHOOSE p \in 1..Len(written[i]) :
    /\ IsTerminating(written[i][p])
    /\ \A q \in 1..(p - 1) : ~IsTerminating(written[i][q])

\* C1: on a socket whose connect() resolved and on which the caller finished
\* after N audio frames, the frames up to the terminating one carry sequence
\* 1 (init), 2 .. N+1 (audio) and -(N+2) (terminating), in that order.
C1_SequenceMonotonic ==
  \A i \in Sockets :
    (promise[i].status = "resolved" /\ HasTerminating(i)) =>
      LET p == FirstTerminating(i)
      IN /\ written[i][1].mtype = MSG_FULL_CLIENT_REQUEST
         /\ written[i][1].w4 = 1
         /\ \A k \in 2..(p - 1) :
              /\ written[i][k].mtype = MSG_AUDIO_ONLY_REQUEST
              /\ written[i][k].w4 = k
         /\ written[i][p].w4 = -p

\* C2: every connect() promise that is pending is eventually settled.
C2_ConnectSettles ==
  \A i \in Sockets :
    (promise[i].status = "pending") ~> (promise[i].status # "pending")

\* C3: a connect() promise is rejected only with connectionState "error".
C3_RejectedInErrorState ==
  \A i \in Sockets :
    promise[i].status = "rejected" => promise[i].cs = "error"

\* C4: when connect() creates a socket after the previous session has ended
\* (state disconnected or error), no earlier socket is still connecting or
\* open and none still has the client's listeners attached.
C4_NoLeakOnReconnect ==
  [][ (last'.op = "connect" /\ connectionState \in {"disconnected", "error"})
        => \A i \in 1..nSock :
             /\ readyState'[i] \notin {"CONNECTING", "OPEN"}
             /\ ~listeners'[i] ]_vars

MalformedMsgs == { TruncatedMsg, CutShortMsg, NotGzipMsg, NotJsonMsg }

\* C5: the message handler returns normally for a malformed message, emits
\* nothing and leaves connectionState and the sequence counter alone.
C5_MalformedIsDropped ==
  [][ (last'.op = "message" /\ last'.msg \in MalformedMsgs)
        => /\ raised' = "none"
           /\ emitted' = << >>
           /\ UNCHANGED << connectionState, sequence >> ]_vars

QuietMsgs == { ShortMsg, UnknownTypeMsg, AckMsg }

\* C6: a message shorter than a header, one of an unknown type and a
\* well-formed ServerAck each emit nothing, raise nothing and leave
\* connectionState, requestId and the sequence counter alone; a result frame
\* emits its own result event in the step that delivers it, whatever was
\* delivered before.
C6_QuietFramesAreSkipped ==
  [][ /\ (last'.op = "message" /\ last'.msg \in QuietMsgs)
           => /\ emitted' = << >>
              /\ raised' = "none"
              /\ UNCHANGED << connectionState, requestId, sequence, ws,
                              readyState, listeners >>
      /\ (last'.op = "message" /\ last'.msg = InterimMsg)
           => /\ emitted' # << >>
              /\ emitted'[1] = ResultEv("interim", "hello", FALSE)
      /\ (last'.op = "message" /\ last'.msg = FinalMsg)
           => /\ emitted' # << >>
              /\ emitted'[1] = ResultEv("final", "hey", TRUE) ]_vars

\* a result delivered after a quiet message that followed an earlier result
C6_Witness ==
  /\ last.op = "message"
  /\ last.msg = FinalMsg
  /\ emitted # << >>
  /\ emitted[1].ev = "result"
  /\ stream = "dropped"

\* C7: every ServerError frame, an empty message included, makes the client
\* emit one error event with the server's message and then an error status,
\* without raising and with the connection left as it was.
C7_ServerErrorIsReported ==
  [][ (last'.op = "message" /\ errorListener
         /\ last'.msg \in { ErrorMsg, EmptyErrorMsg })
        => /\ emitted' = << ErrorEv(IF last'.msg = ErrorMsg
                                     THEN "internal error" ELSE ""),
                            StatusEv("error") >>
           /\ raised' = "none"
           /\ UNCHANGED << connectionState, ws, readyState >> ]_vars

\* C8: a decoded FullServerResponse is final exactly when its sequence is
\* negative or its flags are NegativeSequence (0b0011).
C8_FinalityDetection ==
  parsed.type = "result" =>
    (parsed.isFinal <=> (inBuf.w4 < 0 \/ inBuf.flags = 3))

\* a frame that is final by its flags alone
C8_Witness ==
  /\ parsed.type = "result"
  /\ parsed.isFinal
  /\ inBuf.w4 > 0
  /\ inBuf.flags = 3

EmittedResults == SelectSeq(emitted, IsResultEv)
IsStatusEv(e) == e.ev = "status"
FrameIsFinal(m) == m.w4 < 0 \/ m.flags = 3

\* C9: a decodable result frame emits exactly one result event, final if and
\* only if the frame is; a done status comes only directly after a final
\* result event; an interim result comes with no status event.
C9_ResultThenDone ==
  /\ (last.op = "message" /\ last.msg \in {InterimMsg, FinalMsg, FlagFinalMsg})
       => /\ Len(EmittedResults) = 1
          /\ emitted[1].ev = "result"
          /\ (emitted[1].type = "final") <=> FrameIsFinal(last.msg)
          /\ (emitted[1].type = "interim") <=> ~FrameIsFinal(last.msg)
          /\ emitted[1].isFinal <=> FrameIsFinal(last.msg)
          /\ ~FrameIsFinal(last.msg) => SelectSeq(emitted, IsStatusEv) = << >>
  /\ \A k \in 1..Len(emitted) :
       emitted[k] = StatusEv("done")
         => /\ k > 1
            /\ emitted[k - 1].ev = "result"
            /\ emitted[k - 1].type = "final"
  /\ Len(EmittedResults) <= 1

\* an interim result delivered alone
C9_Witness ==
  /\ last.op = "message"
  /\ last.msg = InterimMsg
  /\ emitted = << ResultEv("interim", "hello", FALSE) >>

IsInitFrame(f) == f.mtype = MSG_FULL_CLIENT_REQUEST

\* C10: connect() resolves only once the init frame is on its socket; the
\* first frame on every socket is the init frame; the listening status is
\* emitted only by the step that wrote the init frame.
C10_InitFrameFirst ==
  /\ \A i \in Sockets :
       promise[i].status = "resolved"
         => /\ promise[i].nWritten >= 1
            /\ IsInitFrame(written[i][1])
  /\ \A i \in Sockets :
       written[i] # << >> => IsInitFrame(written[i][1])
  /\ \A k \in 1..Len(emitted) :
       emitted[k] = StatusEv("listening")
         => /\ last.op = "open"
            /\ written[last.sock] # << >>
            /\ IsInitFrame(written[last.sock][Len(written[last.sock])])

\* C11: connect() called while the client is connected returns without
\* raising, creates no socket and no promise, arms no timer, emits nothing
\* and leaves connectionState, requestId, the sequence counter, the socket
\* reference and every socket as they were.
C11_ConnectWhileConnectedIsNoOp ==
  [][ (last'.op \in {"connect", "connect-noop"} /\ isConnected(Cur))
        => /\ raised' = "none"
           /\ emitted' = << >>
           /\ UNCHANGED << connectionState, ws, requestId, sequence, nSock,
                           readyState, listeners, timer, promise,
                           written >> ]_vars

\* connect() called in a session that has already sent an audio frame
C11_Witness ==
  /\ last.op = "connect-noop"
  /\ connectionState = "connected"
  /\ requestId = 1
  /\ sequence = 3
  /\ emitted = << >>

\* C12: sendAudio and finishAudio called while the client is not connected
\* with an open socket write nothing to any socket, emit nothing, raise
\* nothing and leave the sequence counter and connectionState alone.
C12_SendWhenNotConnectedIsNoOp ==
  [][ (last'.op \in {"sendAudio", "finishAudio"} /\ ~isConnected(Cur))
        => /\ raised' = "none"
           /\ emitted' = << >>
           /\ UNCHANGED << written, sequence, connectionState >> ]_vars

\* sendAudio on a client still in state connected whose socket is closing
C12_Witness ==
  /\ last.op = "sendAudio"
  /\ connectionState = "connected"
  /\ ws # 0
  /\ readyState[ws] = "CLOSING"
  /\ written[ws] # << >>
  /\ emitted = << >>
  /\ raised = "none"

\* C13: finishAudio called while connected appends exactly one frame to the
\* client's socket: an AudioOnlyRequest with the NegativeSequence flag, a
\* sequence word of minus the counter and a payload that decompresses to
\* nothing; it emits the processing status only and leaves connectionState,
\* the socket and the counter as they were.
C13_FinishWritesTerminatingFrame ==
  [][ (last'.op = "finishAudio" /\ isConnected(Cur))
        => /\ Len(written'[ws]) = Len(written[ws]) + 1
           /\ SubSeq(written'[ws], 1, Len(written[ws])) = written[ws]
           /\ \A i \in Sockets \ {ws} : written'[i] = written[i]
           /\ LET f == written'[ws][Len(written'[ws])]
              IN /\ f.mtype = MSG_AUDIO_ONLY_REQUEST
                 /\ f.flags = FLAG_NEG_SEQUENCE
                 /\ f.w4 = -sequence
                 /\ f.comp = COMPRESS_GZIP
                 /\ ~GunzipThrows(f.body)
                 /\ gzipDecompress(f.body).n = 0
                 /\ f.w8 = f.body.n
                 /\ f.len = 12 + f.body.n
           /\ emitted' = << StatusEv("processing") >>
           /\ raised' = "none"
           /\ UNCHANGED << connectionState, ws, readyState, sequence >> ]_vars

\* finishAudio after one audio frame: the terminating frame carries -3
C13_Witness ==
  /\ last.op = "finishAudio"
  /\ emitted = << StatusEv("processing") >>
  /\ sequence = 3
  /\ ws # 0
  /\ Len(written[ws]) = 3
  /\ written[ws][3].w4 = -3

\* C14: disconnect() never raises, leaves connectionState disconnected and
\* the socket reference null and emits one idle status; a disconnect() that
\* directly follows another leaves connectionState, the socket reference,
\* requestId and the sequence counter as the first left them.
C14_DisconnectIdempotent ==
  [][ /\ last'.op = "disconnect"
           => /\ raised' = "none"
              /\ connectionState' = "disconnected"
              /\ ws' = 0
              /\ emitted' = << StatusEv("idle") >>
      /\ (last.op = "disconnect" /\ last'.op = "disconnect")
           => UNCHANGED << connectionState, ws, requestId, sequence >> ]_vars

\* disconnect() called on a connected client: its open socket is closing
C14_Witness ==
  /\ last.op = "disconnect"
  /\ last.sock # 0
  /\ readyState[last.sock] = "CLOSING"
  /\ ~listeners[last.sock]
  /\ connectionState = "disconnected"
  /\ ws = 0

\* the client's socket has been closed and the client still refers to it
PeerClosed == ws # 0 /\ readyState[ws] = "CLOSED"

\* C15: a close of the client's socket while the state is connected makes
\* the state disconnected and emits exactly one idle status; as long as the
\* client refers to that closed socket, sendAudio and finishAudio write
\* nothing, emit nothing, raise nothing and change neither the counter nor
\* the state.
C15_PeerCloseEndsSession ==
  [][ /\ (last'.op = "close" /\ last'.sock = ws
            /\ connectionState = "connected")
           => /\ connectionState' = "disconnected"
              /\ emitted' = << StatusEv("idle") >>
              /\ raised' = "none"
      /\ (last'.op \in {"sendAudio", "finishAudio"} /\ PeerClosed)
           => /\ raised' = "none"
              /\ emitted' = << >>
              /\ UNCHANGED << written, sequence, connectionState >> ]_vars

\* sendAudio after the peer closed a session that had been connected
C15_Witness ==
  /\ last.op = "sendAudio"
  /\ PeerClosed
  /\ promise[ws].status = "resolved"
  /\ connectionState = "disconnected"
  /\ emitted = << >>

\* C16: a transport error on the client's socket while the state is
\* connected, with an error listener subscribed, emits the error event,
\* raises nothing and makes connectionState error.
C16_TransportErrorSetsErrorState ==
  [][ (last'.op = "error" /\ last'.sock = ws /\ errorListener
         /\ connectionState = "connected")
        => /\ raised' = "none"
           /\ emitted' # << >>
           /\ emitted'[1] = ErrorEv("socket error")
           /\ connectionState' = "error" ]_vars

\* C17: when the socket of a later connect() call, made in state
\* disconnected or error after an earlier session and not followed by a
\* disconnect(), opens, the state becomes connected, requestId is the one
\* generated by that call, the socket carries exactly the init frame with
\* sequence 1 and the counter is 2.
C17_ReusableAfterTeardown ==
  [][ (last'.op = "open" /\ last'.sock > 1
         /\ last'.sock > releasedUpTo
         /\ promise[last'.sock].from \in {"disconnected", "error"})
        => /\ connectionState' = "connected"
           /\ requestId' = last'.sock
           /\ sequence' = 2
           /\ Len(written'[last'.sock]) = 1
           /\ IsInitFrame(written'[last'.sock][1])
           /\ written'[last'.sock][1].w4 = 1 ]_vars

PendingCalls(kind) ==
  { k \in 1..Len(asrCalls) : asrCalls[k] = AsrCall(kind) }

\* C20: PushToTalkService calls asrService.start() only when no start() or
\* stop() call it made earlier is pending, and asrService.stop() only when
\* no start() call is pending.
C20_OneCycleInFlight ==
  [][ Len(asrCalls') > Len(asrCalls)
        => /\ PendingCalls("start") = {}
           /\ asrCalls'[Len(asrCalls')].kind = "start"
                => PendingCalls("stop") = {} ]_vars

\* C18: parseResponse applied to a frame that buildInitRequest or
\* buildAudioRequest produced returns a decoded frame, and that frame
\* carries the sequence word the encoder wrote.
C18_CodecRoundTrip ==
  (inBuf \in EncodedFrames /\ parsed # NotParsed)
    => /\ parsed.type \notin {"null", "throw"}
       /\ parsed.sequence = inBuf.w4

\* the payload parseResponse decodes from a FullServerResponse
PayloadOf(data) ==
  LET raw == Slice12(data, data.w8)
  IN Utf8(IF data.comp = COMPRESS_GZIP THEN gzipDecompress(raw) ELSE raw).json

HasDirectText(r) == r.kind = "object" /\ r.text # NoText /\ r.text[1] # ""

\* C19: the text of a decoded result is result.text when that is present
\* and not empty; otherwise, when result.utterances is present, the texts of
\* the utterances joined in array order without a separator; otherwise the
\* empty string.
C19_TextExtraction ==
  parsed.type = "result" =>
    LET r == PayloadOf(inBuf).result
    IN /\ HasDirectText(r) => parsed.text = r.text[1]
       /\ (~HasDirectText(r) /\ r.kind = "object" /\ r.utt.kind # "absent")
            => parsed.text = JoinTexts(r.utt.items)
       /\ (~HasDirectText(r) /\ (r.kind # "object" \/ r.utt.kind = "absent"))
            => parsed.text = ""
       /\ inBuf.body \in {BothDoc, gzipCompress(BothDoc)} => parsed.text = "hi"
       /\ inBuf.body = UttDoc => parsed.text = "hey"
       /\ inBuf.body = GapUttDoc => parsed.text = "ab"
       /\ inBuf.body = EmptyUttDoc => parsed.text = ""

\* an empty result.text replaced by the joined utterances
C19_Witness ==
  /\ parsed.type = "result"
  /\ inBuf.body = UttDoc
  /\ inBuf.comp = COMPRESS_NONE
  /\ parsed.text = "hey"

\* C21: when asrService.start() rejects, the continuation of handleKeyDown
\* leaves isActive false and sends the floating window the start failure
\* and nothing else (no listening status, no start of recording); a
\* key-down that finds isActive false starts a session.
C21_RejectedStartIsNotASession ==
  [][ /\ last'.op = "start-rejected"
           => /\ isActive' = FALSE
              /\ sent' = << FwError("Failed to start") >>
      /\ (last'.op = "keydown" /\ ~isActive)
           => /\ isActive'
              /\ asrCalls' = Append(asrCalls, AsrCall("start")) ]_vars

\* a key-down that starts a session after an earlier start was rejected
C21_Witness ==
  /\ last.op = "keydown"
  /\ Len(asrCalls) = 2
  /\ asrCalls[1] = [kind |-> "start", status |-> "rejected"]
  /\ asrCalls[2] = AsrCall("start")
  /\ isActive

\* the press that made the k-th call has been released: a stop() was called
\* after it
Released(k) ==
  \E j \in (k + 1)..Len(asrCalls) : asrCalls[j].kind = "stop"

\* C24: when the start() of a press resolves after the key was released
\* (handleKeyUp has called stop() for it), the continuation sends neither
\* the listening status nor the start of recording.
C24_NoStartAfterRelease ==
  [][ (last'.op = "start-resolved" /\ Released(last'.sock))
        => \A n \in 1..Len(sent') :
             /\ sent'[n] # FwStatus("listening")
             /\ sent'[n] # RendererStatus("listening") ]_vars


\* C23: a press of the trigger key that invoked onKeyDown and is released
\* less than minRecordingMs later leaves no session active once the key is
\* released.
C23_ShortPressLeavesNoSession ==
  [][ ( /\ last'.op = "release"
        /\ pressCalls.calls = 1
        /\ now - kbd.recordingStartTime < minRecordingMs )
        => ~isActive' ]_vars

\* C28: a press that comes at least debounceMs after the previous key-down
\* has invoked onKeyDown exactly once when the key is released, whatever
\* the number of repeated key-down events; an event of another key invokes
\* no callback and leaves the KeyboardService state unchanged; onKeyUp is
\* invoked only when the trigger key is recorded as held.
C28_OneCallbackPerPress ==
  [][ /\ (last'.op = "release" /\ pressCalls.clean)
           => pressCalls.calls = 1
      /\ last'.op \in {"other-down", "other-up"}
           => (last'.sock = 0 /\ kbd' = kbd)
      /\ (last'.op = "release" /\ last'.sock = 1)
           => kbd.isKeyHeld ]_vars


\* C25: on every socket the first terminating frame (negated sequence) is
\* the last AudioOnlyRequest frame written: no audio frame and no second
\* terminating frame follows it.
C25_TerminatingFrameIsLast ==
  \A i \in Sockets :
    HasTerminating(i) =>
      \A q \in (FirstTerminating(i) + 1)..Len(written[i]) :
        ~IsAudioFrame(written[i][q])


\* C26: when the timer of a connect() call fires after a disconnect() ended
\* that call's session and a later connect() call has been made, it leaves
\* the later socket attached and as it was, leaves connectionState
\* unchanged and emits nothing.
C26_TimerOnlyAffectsOwnSession ==
  [][ ( /\ last'.op = "timeout"
        /\ last'.sock <= releasedUpTo
        /\ nSock > releasedUpTo )
        => /\ ws' = ws
           /\ readyState' = readyState
           /\ listeners' = listeners
           /\ connectionState' = connectionState
           /\ emitted' = << >>
           /\ raised' = "none" ]_vars


\* what the socket of an earlier connect() call delivers: its events and
\* the end of the response to its upgrade request
SocketDeliveries ==
  {"open", "fail", "error", "close", "message", "response-end"}

\* C27: between a disconnect() and the next connect() call, a delivery of a
\* socket created before the disconnect() emits no event and leaves
\* connectionState unchanged.
C27_OldSocketIsInert ==
  [][ ( /\ last'.op \in SocketDeliveries
        /\ last'.sock <= releasedUpTo
        /\ nSock = releasedUpTo )
        => /\ emitted' = << >>
           /\ connectionState' = connectionState ]_vars


ClientError(status) == status >= 400 /\ status < 500 /\ status # 429

\* C29: when the response to a request has a 4xx status other than 429,
\* makeRequest fails with the error of that response once the body is read,
\* without issuing another request, whatever maxRetries is.
C29_ClientErrorIsNotRetried ==
  [][ (last'.op = "llm-text" /\ ClientError(llm.status))
        => /\ llm'.pc = "done"
           /\ llm'.outcome = "thrown"
           /\ llm'.thrown = HttpError(llm.status)
           /\ llm'.requests = llm.requests ]_vars

\* what makeRequest has done so far is within its contract: at most
\* maxRetries + 1 requests, the k-th delay min(1000 * 2^(k-1), 10000) ms,
\* and a failure other than a timeout only after the final attempt, with
\* the last error
LlmWithinContract ==
  /\ llm.requests <= llm.maxRetries + 1
  /\ Len(llm.delays) <= llm.attempt + 1
  /\ \A k \in 1..Len(llm.delays) :
       llm.delays[k] = Min(1000 * 2^(k - 1), 10000)
  /\ (llm.outcome = "thrown" /\ llm.thrown.name # "TimeoutError")
       => /\ llm.requests = llm.maxRetries + 1
          /\ llm.thrown = llm.lastError

C22_StopResolves ==
  /\ [][ /\ ( /\ last'.op = "asr-message"
               /\ asr.stop = "pending"
               /\ last'.msg \in {FinalMsg, FlagFinalMsg} )
             => /\ asr'.stop = "resolved"
                /\ Len(asr'.value) = 1
                /\ asr'.value[1].isFinal
                /\ connectionState' = "disconnected"
         /\ ( /\ asr.stop = "pending"
               /\ asr'.stop = "resolved"
               /\ last'.msg \notin {FinalMsg, FlagFinalMsg} )
             => asr'.value = asr.best ]_vars
  /\ (asr.stop = "pending") ~> (asr.stop = "resolved")

\* a stop() that the timeout of its wait resolved with an interim result
C22_Witness ==
  /\ last.op = "asr-stop-timeout"
  /\ asr.stop = "resolved"
  /\ asr.value = << ResultEv("interim", "hello", FALSE) >>


\* C36: a connect-time failure of the current socket (its timer fires, the
\* response to its upgrade request ends, or the handshake fails, while the
\* client is connecting and the call's promise is pending) rejects the
\* promise and lets no exception escape, with or without an error listener.
C36_ConnectFailureRejects ==
  [][ ( /\ last'.op \in {"timeout", "response-end", "fail"}
        /\ last'.sock = ws
        /\ connectionState = "connecting"
        /\ promise[last'.sock].status = "pending" )
        => /\ promise'[last'.sock].status = "rejected"
           /\ raised' = "none" ]_vars


\* C33: the floating window has at most one auto-hide timeout pending; a
\* show() or a hide() (also the show() of a connecting, listening or
\* processing status) leaves none pending; an auto-hide timeout that fires
\* hides the window and no show() has run since it was armed; on an existing
\* window an idle status hides it and sends nothing to the renderer, and
\* every other status is sent to the renderer, once.
C33_OneAutoHideTimer ==
  [][ /\ fw'.pending <= 1
      /\ fw'.pending = (IF fw'.autoHideTimer THEN 1 ELSE 0)
      /\ last'.op \in {"fw-show", "fw-hide"}
           => fw'.pending = 0 /\ ~fw'.autoHideTimer
      /\ last'.op = "fw-autohide"
           => ~fw.shownSince /\ ~fw'.visible /\ fw'.pending = 0
      /\ (last'.op = "fw-status" /\ fw.window)
           => /\ last'.status \in {"connecting", "listening", "processing"}
                   => fw'.pending = 0 /\ fw'.visible
              /\ last'.status = "done" => fw'.pending = 1
              /\ IF last'.status = "idle"
                 THEN ~fw'.visible /\ fw'.toRenderer = << >> /\ fw'.pending = 0
                 ELSE fw'.toRenderer
                        = << [kind |-> "status", arg |-> last'.status] >>
      /\ (last'.op = "fw-error" /\ fw.window)
           => fw'.pending = 1 /\ fw'.visible ]_vars

\* the auto-hide armed by a done status has fired and hidden a window that
\* was visible
C33_Witness ==
  /\ last.op = "fw-autohide"
  /\ fw.window
  /\ ~fw.visible
  /\ fw.pending = 0

\* C35: the tracked height stays within [58, 112]; setContentHeight(h) on an
\* existing window resizes exactly when its target (58 when h <= 18, else
\* min(40 + h, 112)) differs from the tracked height by at least 4, the
\* window and the tracked height then take the target, and every resize
\* leaves y + height = screen height - 80.
C35_HeightWithinBounds ==
  [][ /\ fw'.currentHeight >= 58
      /\ fw'.currentHeight <= 112
      /\ fw'.resized => fw'.y + fw'.height = fw'.screen - 80
      /\ (last'.op = "fw-height" /\ fw.window)
           => LET h == last'.sock
                  t == IF h <= 18 THEN 58
                       ELSE IF 40 + h < 112 THEN 40 + h ELSE 112
                  far == t - fw.currentHeight >= 4
                           \/ fw.currentHeight - t >= 4
              IN /\ fw'.resized <=> far
                 /\ far => fw'.height = t /\ fw'.currentHeight = t
                 /\ ~far => /\ fw'.height = fw.height
                            /\ fw'.y = fw.y
                            /\ fw'.currentHeight = fw.currentHeight ]_vars

\* a content height above 72 has grown the visible window to the maximum
C35_Witness ==
  /\ last.op = "fw-height"
  /\ last.sock > 72
  /\ fw.visible
  /\ fw.resized
  /\ fw.currentHeight = 112
  /\ fw.height = 112


\* C31: a key-up whose stop() returned a text always goes on to one
\* insertion.  When stop() has settled with a text the handler awaits the LLM
\* service or the focus wait; when optimizeText has settled it awaits the
\* focus wait, holding the LLM's text only if optimizeText returned a
\* rewritten text and the ASR text otherwise, also when optimizeText threw;
\* the step after the focus wait makes exactly one insertion, of that text.
C31_LlmFailureStillInserts ==
  [][ LET k == last'.sock
          inserts == { i \in 1..Len(sent') : sent'[i].kind = "insert" }
      IN /\ last'.op = "stop-text"
              => asrCalls'[k].status \in
                   { "optimizing-" \o t : t \in AsrTexts }
                     \cup { "focus-wait-asr" }
         /\ last'.op = "optimize-optimized"
              => asrCalls'[k].status = "focus-wait-llm"
         /\ last'.op \in {"optimize-same", "optimize-threw"}
              => asrCalls'[k].status = "focus-wait-asr"
         /\ last'.op = "insert"
              => /\ Cardinality(inserts) = 1
                 /\ \A i \in inserts :
                      sent'[i].arg = (IF asrCalls[k].status = "focus-wait-llm"
                                      THEN "llm" ELSE "asr") ]_vars

C34_NoStaleHideInSession ==
  [][ (last'.op \in {"fw-autohide", "hide-timer"} /\ isActive)
        => fw'.visible = fw.visible ]_vars

\* C37: a readEnvConfig that follows a writeEnvConfig returns, for every
\* field, the value that was written.
C37_SaveRoundTrips ==
  [][ (last'.op = "env-read" /\ last.op = "env-write")
        => env'.read = env.saved ]_vars

====
